---------------------------- MODULE Spec2Model ----------------------------
(***************************************************************************)
(* Model of pkg/cluster/cluster.go: the lifecycle calls Create, Update and *)
(* Delete of one Cluster instance, the statefulset comparison and the      *)
(* persistent-volume resize they drive.                                    *)
(*                                                                         *)
(* Every lifecycle call is a sequence of steps of one caller; pc[p] is the *)
(* caller's position in the body.  A call to a collaborator whose body is  *)
(* outside this file (control plane, EC2, remote execution, database) is   *)
(* a step whose outcome is drawn with \E.  calls is the record of the      *)
(* collaborator calls the running lifecycle call has made so far.          *)
(***************************************************************************)
EXTENDS Integers, Sequences, FiniteSets, TLC

\* ------------------------------------------------------------------ bounds
NumCallers == 2
MaxVolumes == 2

Procs == 1..NumCallers

\* A nil pointer; every object is a record, so it differs from every object.
NIL == [nil |-> TRUE]

\* ------------------------------------------------------------- data domains
\* spec.PostgresStatus values; "" is the zero value the field has after New.
ClusterStatusCreating == "Creating"
ClusterStatusRunning == "Running"
ClusterStatusUpdating == "Updating"
ClusterStatusAddFailed == "AddFailed"
ClusterStatusUpdateFailed == "UpdateFailed"

\* Service objects, identified by the one field sameServiceWith reads.
SourceRanges == {<<>>, <<"10.0.0.0/8">>}
Services == [LoadBalancerSourceRanges : SourceRanges]

\* UIDs of the secrets applySecrets may create.
SecretUIDs == {"s1", "s2"}

\* Quantities are counted in MiB: the divisor 1073741824 (bytes) is 1024 MiB.
GiB == 1024

\* A size string: its number and its suffix.
SizeStrings == { [num |-> 1, unit |-> "Gi"], [num |-> 1536, unit |-> "Mi"],
                 [num |-> 2, unit |-> "Gi"], [num |-> 1, unit |-> "Gb"] }
\* spec.Volume
Volumes == [Size : SizeStrings, StorageClass : {"gp2"}]

\* resource.ParseQuantity: the quantity of a size string with a binary suffix,
\* or an error and the zero Quantity.
ParseQuantity(size) ==
  CASE size.unit = "Gi" -> [err |-> FALSE, q |-> size.num * 1024]
    [] size.unit = "Mi" -> [err |-> FALSE, q |-> size.num]
    [] OTHER -> [err |-> TRUE, q |-> 0]

\* q.ScaledValue(0) / (1073741824)
WholeGiB(q) == q \div GiB

\* strings.LastIndex(s, sub): 0-based index of the last occurrence, or -1.
LastIndex(s, sub) ==
  LET at == { i \in 0..(Len(s) - Len(sub)) : SubSeq(s, i + 1, i + Len(sub)) = sub }
  IN  IF at = {} THEN 0 - 1 ELSE CHOOSE i \in at : \A j \in at : j <= i

VolMarker == <<"/", "v", "o", "l", "-">>

\* getAWSVolumeId: aws://zone/vol-1 gives vol-1
getAWSVolumeId(pv) ==
  LET id == pv.VolumeID
      idx == LastIndex(id, VolMarker) + 1
  IN  IF id = <<>> THEN [err |-> TRUE, id |-> <<>>]
      ELSE IF idx = 0 THEN [err |-> TRUE, id |-> <<>>]
      ELSE [err |-> FALSE, id |-> SubSeq(id, idx + 1, Len(id))]

\* EBS volume ids: a well-formed one, the empty one and one without "/vol-".
GoodVolumeID == <<"a", ":", "/", "/", "z", "/", "v", "o", "l", "-", "1">>
VolumeIDs == { GoodVolumeID, <<>>, <<"v", "o", "l", "-", "1">> }

\* Persistent volume records: of 1 GiB, 1.5 GiB and 2 GiB.
PersistentVolumes == [Capacity : {GiB, GiB + 512, 2 * GiB}, VolumeID : VolumeIDs]
PVLists == UNION { [1..n -> PersistentVolumes] : n \in 0..MaxVolumes }

\* Output of the remote resize2fs command, as the phrases it is made of.
NothingToDo == "Nothing to do"
OnlineResizing == "on-line resizing required"
NowBlocksLong == "The filesystem on /dev/xvdb is now 524288 (4k) blocks long."
ExecOutputs == { <<>>, <<NothingToDo>>, <<OnlineResizing, NowBlocksLong>>,
                 <<OnlineResizing>>, <<NowBlocksLong>>, <<"resize2fs: Permission denied">> }

\* strings.Contains(out, phrase)
Contains(out, phrase) == \E i \in DOMAIN out : out[i] = phrase
\* ext2fsSuccessRegexp.MatchString(out)
ext2fsSuccessRegexp(out) == Contains(out, NowBlocksLong)

\* The outcome of resizeVolumeFS, given what c.ExecCommand returned.
resizeVolumeFS(out, execErr) ==
  IF execErr THEN "err"
  ELSE IF Contains(out, NothingToDo)
          \/ (Contains(out, OnlineResizing) /\ ext2fsSuccessRegexp(out))
    THEN "nil"
    ELSE "err"

\* ------------------------------------------------------------ pod events
MaxSubmits == 3
MaxChans == 2

\* spec.NamespacedName of a pod and a resource version, as strings of characters
Pods == { <<"p", "-", "0">>, <<"p", "-", "1">> }
ResourceVersions == { <<"7">>, <<"8">> }
EventTypes == {"ADD", "UPDATE"}
\* The events of pod p-0 at both versions and of both types, and the addition
\* of pod p-1.
PodEvents ==
  { e \in [PodName : Pods, ResourceVersion : ResourceVersions, EventType : EventTypes] :
      \/ e.PodName = <<"p", "-", "0">>
      \/ e.ResourceVersion = <<"7">> /\ e.EventType = "ADD" }

\* fmt.Sprintf("%s-%s", e.PodName, e.ResourceVersion)
KeyFunc(e) == e.PodName \o <<"-">> \o e.ResourceVersion

VARIABLES
  pc,           \* pc[p]: position of caller p; "idle" outside the lifecycle calls
  op,           \* op[p]: the lifecycle call caller p is in ("none" when idle)
  mu,           \* Cluster.mu: 0 when free, else the caller holding it
  Status,       \* Cluster.Status
  Endpoint,     \* kubeResources.Endpoint: NIL or the endpoint object
  Service,      \* kubeResources.Service: NIL or a service object
  Statefulset,  \* kubeResources.Statefulset: NIL or a statefulset object
  Secrets,      \* kubeResources.Secrets: the set of UIDs in the map
  err,          \* Create's function-level variable err: "nil" or "err"
  ret,          \* the value the running call returns: "none", "nil" or "err"
  todo,         \* Delete: the keys of c.Secrets the range loop has not visited
  calls,        \* the collaborator calls of the running lifecycle call, in order
  panicked,     \* TRUE once a run-time panic has ended the process
  SpecVolume,   \* c.Spec.Volume
  pvs,          \* the persistent volume records of the cluster, in list order
  ebs,          \* ebs[i]: size in GiB of the EBS volume behind pvs[i]
  newService,   \* Update: newService
  listed,       \* updateVolumes: pvs, the list listPersistentVolumes returned
  newQuantity,  \* updateVolumes: newQuantity
  newSize,      \* updateVolumes: newSize
  parseErr,     \* updateVolumes: whether ParseQuantity returned an error
  vi,           \* updateVolumes: 0-based position of the range over pvs
  newStatefulSet, \* Update: newStatefulSet
  cmp           \* Update: cmp

\* The pod event pipeline
VARIABLES
  podEventsQueue, \* Cluster.podEventsQueue: [queue: keys in order, items: key -> event]
  podSubscribers, \* Cluster.podSubscribers: pod name -> channel (0 when absent)
  stopCh,         \* TRUE once the stop channel passed to Run is closed
  dpc,            \* position of the goroutine running processPodEventQueue
  obj,            \* processPodEvent: the popped entry, [n, event]; NIL outside it
  subscriber,     \* processPodEvent: the channel read from podSubscribers (0: none)
  nextChan,       \* number of subscriber channels made so far
  enqueued,       \* the keys in the order they were appended to the queue
  delivered,      \* the handoffs completed so far, in order: [n, event, ch, pod]
  dropped,        \* the entries popped while their pod had no subscriber
  submitted       \* the events passed to ReceivePodEvent so far, in order

\* The role model
VARIABLES
  pgUsers,             \* Cluster.pgUsers: username -> PgUser
  systemUsers,         \* Cluster.systemUsers: key -> PgUser
  InfrastructureRoles, \* Config.InfrastructureRoles: username -> PgUser
  SpecUsers,           \* c.Spec.Users: username -> requested flags
  teamMembers,         \* initHumanUsers: teamMembers
  upc                  \* position of the running initUsers ("off" outside it)

users == <<pgUsers, systemUsers, InfrastructureRoles, SpecUsers, teamMembers, upc>>

\* A call of compareResources
VARIABLES
  ra,             \* compareResources: the argument a, NIL or a requirement set
  rb,             \* compareResources: the argument b, NIL or a requirement set
  equal           \* compareResources: NIL before it returns, then [equal |-> result]

rcall == <<ra, rb, equal>>

dispatch == <<podEventsQueue, podSubscribers, stopCh, dpc, obj, subscriber, nextChan,
              enqueued, delivered, dropped, submitted>>

\* The state of the lifecycle calls.
lifecycleOnly == <<pc, op, mu, Status, Endpoint, Service, Statefulset, Secrets,
                   err, ret, todo, calls, panicked, SpecVolume, pvs, ebs, newService,
                   listed, newQuantity, newSize, parseErr, vi, newStatefulSet, cmp>>

\* What the lifecycle calls leave alone.
others == <<dispatch, rcall, users>>

vars == <<pc, op, mu, Status, Endpoint, Service, Statefulset, Secrets,
          err, ret, todo, calls, panicked,
          SpecVolume, pvs, ebs, newService, listed, newQuantity, newSize, parseErr, vi,
          newStatefulSet, cmp, others>>

volumes == <<pvs, ebs>>
\* Update's local variables
ufr == <<newService, listed, newQuantity, newSize, parseErr, vi, newStatefulSet, cmp>>

resources == <<Endpoint, Service, Statefulset, Secrets>>
frame == <<err, ret, todo>>

Call(name, ok) == [call |-> name, ok |-> ok]

\* ------------------------------------------------------------------- New
\* The role model as New leaves it: empty maps, no infrastructure roles and
\* no users in the cluster spec.
NewUsers ==
  /\ pgUsers = [u \in {} |-> NIL]
  /\ systemUsers = [u \in {} |-> NIL]
  /\ InfrastructureRoles = [u \in {} |-> NIL]
  /\ SpecUsers = [u \in {} |-> NIL]
  /\ teamMembers = {}
  /\ upc = "off"

\* No call of compareResources is in progress.
NoResourcesCall ==
  /\ ra = NIL
  /\ rb = NIL
  /\ equal = NIL

\* The pod event pipeline as New leaves it: an empty queue, no subscriber, and
\* the dispatching goroutine not yet started.
NewDispatch ==
  /\ podEventsQueue = [queue |-> <<>>, items |-> [k \in {} |-> NIL]]
  /\ podSubscribers = [pod \in Pods |-> 0]
  /\ stopCh = FALSE
  /\ dpc = "off"
  /\ obj = NIL
  /\ subscriber = 0
  /\ nextChan = 0
  /\ enqueued = <<>>
  /\ delivered = <<>>
  /\ dropped = {}
  /\ submitted = <<>>

\* The cluster as New returns it, with one persistent volume of 1 GiB.
Init ==
  /\ pc = [p \in Procs |-> "idle"]
  /\ op = [p \in Procs |-> "none"]
  /\ mu = 0
  /\ Status = ""
  /\ Endpoint = NIL
  /\ Service = NIL
  /\ Statefulset = NIL
  /\ Secrets = {}
  /\ err = "nil"
  /\ ret = "none"
  /\ todo = {}
  /\ calls = <<>>
  /\ panicked = FALSE
  /\ SpecVolume = [Size |-> [num |-> 1, unit |-> "Gi"], StorageClass |-> "gp2"]
  /\ pvs = <<[Capacity |-> GiB, VolumeID |-> GoodVolumeID]>>
  /\ ebs = [i \in DOMAIN pvs |-> WholeGiB(pvs[i].Capacity)]
  /\ newService = NIL
  /\ parseErr = FALSE
  /\ listed = <<>>
  /\ newQuantity = 0
  /\ newSize = 0
  /\ vi = 0
  /\ newStatefulSet = NIL
  /\ cmp = NIL
  /\ NewDispatch
  /\ NoResourcesCall
  /\ NewUsers

\* ------------------------------------------------- statefulset comparison
\* v1.ResourceRequirements: Requests and Limits map a resource name to a
\* quantity.  m[k] of a key the map lacks is the zero Quantity.
Get(m, k) == IF k \in DOMAIN m THEN m[k] ELSE 0

\* (&v).Cmp(w) != 0
CmpNonZero(v, w) == v # w

compareResoucesAssumeFirstNotNil(a, b) ==
  IF b = NIL
    THEN Cardinality(DOMAIN a.Requests) = 0
    ELSE IF Cardinality(DOMAIN b.Requests) = 0
      THEN Cardinality(DOMAIN a.Requests) = 0
      ELSE /\ \A k \in DOMAIN a.Requests : ~CmpNonZero(a.Requests[k], Get(b.Requests, k))
           /\ \A k \in DOMAIN a.Limits : ~CmpNonZero(a.Limits[k], Get(b.Limits, k))

compareResources(a, b) ==
  LET equal1 == IF a # NIL THEN compareResoucesAssumeFirstNotNil(a, b) ELSE TRUE
  IN  IF equal1 /\ b # NIL THEN compareResoucesAssumeFirstNotNil(b, a) ELSE equal1

\* strconv of the small indices fmt.Sprintf("%d", i) formats.
Itoa(i) == CASE i = 0 -> "0" [] i = 1 -> "1" [] i = 2 -> "2" [] i = 3 -> "3" [] OTHER -> "n"

\* One entry of the reasons list: the message and its formatted argument.
Reason(msg, arg) == [msg |-> msg, arg |-> arg]

\* A check that assigns its flags instead of raising them.
Fired_Assigns(acc, setRoll, setReplace, reason) ==
  [acc EXCEPT !.rollingUpdate = setRoll,
              !.replace = setReplace,
              !.reasons = Append(@, reason)]

\* A check that fired: the flags it assigns become true, its reason is appended.
Fired(acc, setRoll, setReplace, reason) ==
  [acc EXCEPT !.rollingUpdate = IF setRoll THEN TRUE ELSE @,
              !.replace = IF setReplace THEN TRUE ELSE @,
              !.reasons = Append(@, reason)]

\* The loop over c.Statefulset.Spec.VolumeClaimTemplates, from 0-based index i on.
\* Reading statefulSet.Spec.VolumeClaimTemplates[i] past its length panics.
RECURSIVE compareVolumeClaimTemplates(_, _, _, _)
compareVolumeClaimTemplates(live, desired, i, acc) ==
  IF ~(i < Len(live)) THEN acc
  ELSE IF ~(i < Len(desired)) THEN [acc EXCEPT !.panic = TRUE]
  ELSE
    LET l == live[i + 1]
        d == desired[i + 1]
        name == l.Name
    IN  IF name # d.Name
          THEN compareVolumeClaimTemplates(live, desired, i + 1,
                 Fired(acc, FALSE, TRUE,
                       Reason("new statefulset's name for volume %d doesn't match the current one", Itoa(i))))
          ELSE
            LET a1 == IF l.Annotations # d.Annotations
                        THEN Fired(acc, FALSE, TRUE,
                               Reason("new statefulset's annotations for volume %s doesn't match the current one", name))
                        ELSE acc
                a2 == IF l.Spec # d.Spec
                        THEN Fired(a1, FALSE, TRUE,
                               Reason("new statefulset's volumeClaimTemplates specification for volume %s doesn't match the current one", name))
                        ELSE a1
            IN  compareVolumeClaimTemplates(live, desired, i + 1, a2)

\* if needsRollUpdate || needsReplace { match = false } that looks at
\* needsRollUpdate only.
FinalMatch_RollingOnly(acc) ==
  IF acc.rollingUpdate THEN [acc EXCEPT !.match = FALSE] ELSE acc

\* if needsRollUpdate || needsReplace { match = false }
FinalMatch(acc) ==
  IF acc.rollingUpdate \/ acc.replace THEN [acc EXCEPT !.match = FALSE] ELSE acc

\* A zero-container result that keeps match = true.
EmptyResult_Matching == [panic |-> FALSE, match |-> TRUE, replace |-> FALSE,
                         rollingUpdate |-> FALSE, reasons |-> <<>>]

\* The zero value &compareStatefulsetResult{}
EmptyResult == [panic |-> FALSE, match |-> FALSE, replace |-> FALSE,
                rollingUpdate |-> FALSE, reasons |-> <<>>]

\* c.compareStatefulSetWith(statefulSet), c.Statefulset being cur.  The result
\* has panic = TRUE when the comparison dereferences nil or indexes out of range.
compareStatefulSetWith(cur, statefulSet) ==
  IF cur = NIL THEN [EmptyResult EXCEPT !.panic = TRUE]
  ELSE
  LET a0 == [panic |-> FALSE, match |-> TRUE, replace |-> FALSE,
             rollingUpdate |-> FALSE, reasons |-> <<>>]
      a1 == IF cur.Replicas # statefulSet.Replicas
              THEN [a0 EXCEPT !.match = FALSE,
                              !.reasons = Append(@, Reason("new statefulset's number of replicas doesn't match the current one", ""))]
              ELSE a0
      a2 == IF Len(cur.Containers) # Len(statefulSet.Containers)
              THEN Fired(a1, TRUE, FALSE,
                     Reason("new statefulset's container specification doesn't match the current one", ""))
              ELSE a1
  IN
  IF Len(cur.Containers) = 0 THEN EmptyResult
  ELSE
  LET a3 == IF cur.ServiceAccountName # statefulSet.ServiceAccountName
              THEN Fired(a2, TRUE, TRUE,
                     Reason("new statefulset's serviceAccountName service asccount name doesn't match the current one", ""))
              ELSE a2
      a4 == IF cur.TerminationGracePeriodSeconds # statefulSet.TerminationGracePeriodSeconds
              THEN Fired(a3, TRUE, TRUE,
                     Reason("new statefulset's terminationGracePeriodSeconds  doesn't match the current one", ""))
              ELSE a3
      a5 == IF cur.Labels # statefulSet.Labels
              THEN Fired(a4, TRUE, TRUE,
                     Reason("new statefulset's metadata labels doesn't match the current one", ""))
              ELSE a4
      a6 == IF cur.Annotations # statefulSet.Annotations
              THEN Fired(a5, TRUE, TRUE,
                     Reason("new statefulset's metadata annotations doesn't match the current one", ""))
              ELSE a5
      a7 == IF Len(cur.VolumeClaimTemplates) # Len(statefulSet.VolumeClaimTemplates)
              THEN Fired(a6, FALSE, TRUE,
                     Reason("new statefulset's volumeClaimTemplates contains different number of volumes to the old one", ""))
              ELSE a6
      a8 == compareVolumeClaimTemplates(cur.VolumeClaimTemplates,
                                        statefulSet.VolumeClaimTemplates, 0, a7)
  IN
  IF a8.panic THEN a8
  ELSE IF Len(statefulSet.Containers) = 0 THEN [a8 EXCEPT !.panic = TRUE]
  ELSE
  LET container1 == cur.Containers[1]
      container2 == statefulSet.Containers[1]
      a9 == IF container1.Image # container2.Image
              THEN Fired(a8, TRUE, FALSE,
                     Reason("new statefulset's container image doesn't match the current one", ""))
              ELSE a8
      a10 == IF container1.Ports # container2.Ports
               THEN Fired(a9, TRUE, FALSE,
                      Reason("new statefulset's container ports don't match the current one", ""))
               ELSE a9
      a11 == IF ~compareResources(container1.Resources, container2.Resources)
               THEN Fired(a10, TRUE, FALSE,
                      Reason("new statefulset's container resources don't match the current ones", ""))
               ELSE a10
      a12 == IF container1.Env # container2.Env
               THEN Fired(a11, TRUE, FALSE,
                      Reason("new statefulset's container environment doesn't match the current one", ""))
               ELSE a11
  IN  FinalMatch(a12)

\* ------------------------------------------------------ statefulset objects
NoQuantities == [k \in {} |-> 0]
BaseResources == [Requests |-> [k \in {"cpu"} |-> 1], Limits |-> [k \in {"cpu"} |-> 2]]
BaseContainer == [Image |-> "spilo:1", Ports |-> <<5432>>, Resources |-> BaseResources,
                  Env |-> <<"SCOPE=a">>]
BaseClaim == [Name |-> "pgdata", Annotations |-> "none", Spec |-> "1Gi"]
BaseStatefulSet ==
  [Replicas |-> 1, Containers |-> <<BaseContainer>>, ServiceAccountName |-> "operator",
   TerminationGracePeriodSeconds |-> 30, Labels |-> "l1", Annotations |-> "a1",
   VolumeClaimTemplates |-> <<BaseClaim>>]

\* The statefulset objects the lifecycle calls meet: the base object, one that
\* differs in the replica count only, in the container image, in the template
\* annotations, in the claim spec, and one without containers.
StatefulSets ==
  { BaseStatefulSet,
    [BaseStatefulSet EXCEPT !.Replicas = 2],
    [BaseStatefulSet EXCEPT !.Containers = <<[BaseContainer EXCEPT !.Image = "spilo:2"]>>],
    [BaseStatefulSet EXCEPT !.Annotations = "a2"],
    [BaseStatefulSet EXCEPT !.VolumeClaimTemplates = <<[BaseClaim EXCEPT !.Spec = "2Gi"]>>],
    [BaseStatefulSet EXCEPT !.Containers = <<>>] }

\* The objects the comparison is checked on: the base object and objects that
\* differ from it in one compared field or in several.
Sidecar == [BaseContainer EXCEPT !.Image = "sidecar:1"]
OtherClaim == [Name |-> "pgwal", Annotations |-> "none", Spec |-> "1Gi"]
LimitsOnly(l) == [Requests |-> NoQuantities, Limits |-> [k \in {"cpu"} |-> l]]
WithContainer(c) == [BaseStatefulSet EXCEPT !.Containers = <<c>>]
WithClaim(c) == [BaseStatefulSet EXCEPT !.VolumeClaimTemplates = <<c>>]
CompareInputs ==
  StatefulSets \cup
  { [BaseStatefulSet EXCEPT !.Containers = <<BaseContainer, Sidecar>>],
    [BaseStatefulSet EXCEPT !.Containers = <<>>, !.Replicas = 2],
    [BaseStatefulSet EXCEPT !.ServiceAccountName = "other"],
    [BaseStatefulSet EXCEPT !.TerminationGracePeriodSeconds = 60],
    [BaseStatefulSet EXCEPT !.Labels = "l2"],
    [BaseStatefulSet EXCEPT !.VolumeClaimTemplates = <<>>],
    [BaseStatefulSet EXCEPT !.VolumeClaimTemplates = <<BaseClaim, OtherClaim>>],
    WithClaim([BaseClaim EXCEPT !.Name = "other"]),
    WithClaim([BaseClaim EXCEPT !.Annotations = "resized"]),
    WithClaim([BaseClaim EXCEPT !.Name = "other", !.Spec = "2Gi"]),
    WithContainer([BaseContainer EXCEPT !.Ports = <<5432, 8008>>]),
    WithContainer([BaseContainer EXCEPT !.Env = <<"SCOPE=b">>]),
    WithContainer([BaseContainer EXCEPT !.Resources.Requests = [k \in {"cpu"} |-> 2]]),
    WithContainer([BaseContainer EXCEPT !.Resources.Limits = [k \in {"cpu"} |-> 3]]),
    WithContainer([BaseContainer EXCEPT !.Resources = LimitsOnly(2)]),
    WithContainer([BaseContainer EXCEPT !.Resources = LimitsOnly(3)]),
    [BaseStatefulSet EXCEPT !.Annotations = "a2",
                            !.Containers = <<[BaseContainer EXCEPT !.Image = "spilo:2"]>>],
    [BaseStatefulSet EXCEPT !.Replicas = 2,
                            !.VolumeClaimTemplates = <<[BaseClaim EXCEPT !.Spec = "2Gi"]>>] }

\* Lock without the wait for the mutex to be free.
Lock_NoWait(p, o, first) ==
  /\ ~panicked
  /\ pc[p] = "idle"
  /\ mu' = p
  /\ op' = [op EXCEPT ![p] = o]
  /\ pc' = [pc EXCEPT ![p] = first]
  /\ UNCHANGED <<others, Status, resources, frame, calls, panicked, SpecVolume, volumes, ufr>>

\* ------------------------------------------------------- callers and the lock
\* c.mu.Lock() as the first statement of a lifecycle call: the caller gets past
\* it only while no other caller holds the mutex; until then it has done
\* nothing.  The call starts with fresh local variables.
Lock(p, o, first) ==
  /\ ~panicked
  /\ pc[p] = "idle"
  /\ mu = 0
  /\ mu' = p
  /\ op' = [op EXCEPT ![p] = o]
  /\ pc' = [pc EXCEPT ![p] = first]
  /\ UNCHANGED <<others, Status, resources, frame, calls, panicked, SpecVolume, volumes, ufr>>

\* func (c *Cluster) Create() error { c.mu.Lock(); defer c.mu.Unlock()
Create_Lock(p) == Lock(p, "Create", "c_setStatus")

\* func (c *Cluster) Update(newSpec) error { c.mu.Lock(); defer c.mu.Unlock()
Update_Lock(p) == Lock(p, "Update", "u_setStatus")

\* func (c *Cluster) Delete() error { c.mu.Lock(); defer c.mu.Unlock()
Delete_Lock(p) == Lock(p, "Delete", "d_endpoint")

\* The deferred c.mu.Unlock() and the return to the caller.
Unlock(p) ==
  /\ ~panicked
  /\ pc[p] = "unlock"
  /\ mu' = 0
  /\ pc' = [pc EXCEPT ![p] = "idle"]
  /\ op' = [op EXCEPT ![p] = "none"]
  /\ err' = "nil"
  /\ ret' = "none"
  /\ todo' = {}
  /\ calls' = <<>>
  /\ newService' = NIL
  /\ parseErr' = FALSE
  /\ listed' = <<>>
  /\ newQuantity' = 0
  /\ newSize' = 0
  /\ vi' = 0
  /\ newStatefulSet' = NIL
  /\ cmp' = NIL
  /\ UNCHANGED <<others, Status, resources, panicked, SpecVolume, volumes>>

\* The deferred closure naming the wrong failure status.
DeferredStatus_UpdateFailed(e) ==
  IF e = "nil" THEN ClusterStatusRunning ELSE ClusterStatusUpdateFailed

\* ------------------------------------------------------------------ Create
\* The deferred closure of Create: it reads the function-level err.
DeferredStatus(e) ==
  IF e = "nil" THEN ClusterStatusRunning ELSE ClusterStatusAddFailed

\* c.setStatus(spec.ClusterStatusCreating)
Create_setStatus(p) ==
  /\ ~panicked
  /\ pc[p] = "c_setStatus"
  /\ Status' = ClusterStatusCreating
  /\ pc' = [pc EXCEPT ![p] = "c_endpoint"]
  /\ UNCHANGED <<others, op, mu, resources, frame, calls, panicked, SpecVolume, volumes, ufr>>

\* ep, err := c.createEndpoint(): err is the function-level variable.
Create_createEndpoint(p) ==
  /\ ~panicked
  /\ pc[p] = "c_endpoint"
  /\ \E ok \in BOOLEAN :
       /\ calls' = Append(calls, Call("createEndpoint", ok))
       /\ IF ok
            THEN /\ Endpoint' = [Name |-> "ep"]
                 /\ err' = "nil"
                 /\ ret' = ret
                 /\ pc' = [pc EXCEPT ![p] = "c_service"]
            ELSE /\ Endpoint' = Endpoint
                 /\ err' = "err"
                 /\ ret' = "err"
                 /\ pc' = [pc EXCEPT ![p] = "c_defer"]
  /\ UNCHANGED <<others, op, mu, Status, Service, Statefulset, Secrets, todo, panicked, SpecVolume, volumes, ufr>>

\* service, err := c.createService()
Create_createService(p) ==
  /\ ~panicked
  /\ pc[p] = "c_service"
  /\ \E ok \in BOOLEAN :
       /\ calls' = Append(calls, Call("createService", ok))
       /\ IF ok
            THEN /\ \E s \in Services : Service' = s
                 /\ err' = "nil"
                 /\ ret' = ret
                 /\ pc' = [pc EXCEPT ![p] = "c_initUsers"]
            ELSE /\ Service' = Service
                 /\ err' = "err"
                 /\ ret' = "err"
                 /\ pc' = [pc EXCEPT ![p] = "c_defer"]
  /\ UNCHANGED <<others, op, mu, Status, Endpoint, Statefulset, Secrets, todo, panicked, SpecVolume, volumes, ufr>>

\* if err = c.initUsers(); err != nil { return err }
Create_initUsers(p) ==
  /\ ~panicked
  /\ pc[p] = "c_initUsers"
  /\ \E ok \in BOOLEAN :
       /\ calls' = Append(calls, Call("initUsers", ok))
       /\ IF ok
            THEN /\ err' = "nil"
                 /\ ret' = ret
                 /\ pc' = [pc EXCEPT ![p] = "c_secrets"]
            ELSE /\ err' = "err"
                 /\ ret' = "err"
                 /\ pc' = [pc EXCEPT ![p] = "c_defer"]
  /\ UNCHANGED <<others, op, mu, Status, resources, todo, panicked, SpecVolume, volumes, ufr>>

\* if err = c.applySecrets(); err != nil: the secrets applied before a failure stay.
Create_applySecrets(p) ==
  /\ ~panicked
  /\ pc[p] = "c_secrets"
  /\ \E ok \in BOOLEAN, S \in SUBSET SecretUIDs :
       /\ calls' = Append(calls, Call("applySecrets", ok))
       /\ Secrets' = Secrets \cup S
       /\ IF ok
            THEN /\ err' = "nil"
                 /\ ret' = ret
                 /\ pc' = [pc EXCEPT ![p] = "c_statefulset"]
            ELSE /\ err' = "err"
                 /\ ret' = "err"
                 /\ pc' = [pc EXCEPT ![p] = "c_defer"]
  /\ UNCHANGED <<others, op, mu, Status, Endpoint, Service, Statefulset, todo, panicked, SpecVolume, volumes, ufr>>

\* ss, err := c.createStatefulSet()
Create_createStatefulSet(p) ==
  /\ ~panicked
  /\ pc[p] = "c_statefulset"
  /\ \E ok \in BOOLEAN :
       /\ calls' = Append(calls, Call("createStatefulSet", ok))
       /\ IF ok
            THEN /\ \E s \in StatefulSets : Statefulset' = s
                 /\ err' = "nil"
                 /\ ret' = ret
                 /\ pc' = [pc EXCEPT ![p] = "c_wait"]
            ELSE /\ Statefulset' = Statefulset
                 /\ err' = "err"
                 /\ ret' = "err"
                 /\ pc' = [pc EXCEPT ![p] = "c_defer"]
  /\ UNCHANGED <<others, op, mu, Status, Endpoint, Service, Secrets, todo, panicked, SpecVolume, volumes, ufr>>

\* if err = c.waitStatefulsetPodsReady(); err != nil { return err }
Create_waitStatefulsetPodsReady(p) ==
  /\ ~panicked
  /\ pc[p] = "c_wait"
  /\ \E ok \in BOOLEAN :
       /\ calls' = Append(calls, Call("waitStatefulsetPodsReady", ok))
       /\ IF ok
            THEN /\ err' = "nil"
                 /\ ret' = ret
                 /\ pc' = [pc EXCEPT ![p] = "c_dbaccess"]
            ELSE /\ err' = "err"
                 /\ ret' = "err"
                 /\ pc' = [pc EXCEPT ![p] = "c_defer"]
  /\ UNCHANGED <<others, op, mu, Status, resources, todo, panicked, SpecVolume, volumes, ufr>>

\* if !(c.masterLess || c.databaseAccessDisabled()) { ... } else { ... }
\* c.masterLess is written by the readiness wait and databaseAccessDisabled
\* reads the operator configuration: either may hold when Create gets here.
Create_checkDbAccess(p) ==
  /\ ~panicked
  /\ pc[p] = "c_dbaccess"
  /\ \E masterLess \in BOOLEAN, databaseAccessDisabled \in BOOLEAN :
       pc' = [pc EXCEPT ![p] =
                IF ~(masterLess \/ databaseAccessDisabled) THEN "c_initDbConn" ELSE "c_list"]
  /\ UNCHANGED <<others, op, mu, Status, resources, frame, calls, panicked, SpecVolume, volumes, ufr>>

\* if err := c.initDbConn(); err != nil { return fmt.Errorf(...) }
\* The := of the if statement declares a new err, local to the if: the
\* function-level err keeps the nil that waitStatefulsetPodsReady left.
Create_initDbConn(p) ==
  /\ ~panicked
  /\ pc[p] = "c_initDbConn"
  /\ \E ok \in BOOLEAN :
       /\ calls' = Append(calls, Call("initDbConn", ok))
       /\ err' = err
       /\ IF ok
            THEN /\ ret' = ret
                 /\ pc' = [pc EXCEPT ![p] = "c_createUsers"]
            ELSE /\ ret' = "err"
                 /\ pc' = [pc EXCEPT ![p] = "c_defer"]
  /\ UNCHANGED <<others, op, mu, Status, resources, todo, panicked, SpecVolume, volumes, ufr>>

\* if err = c.createUsers(); err != nil { return fmt.Errorf(...) }
Create_createUsers(p) ==
  /\ ~panicked
  /\ pc[p] = "c_createUsers"
  /\ \E ok \in BOOLEAN :
       /\ calls' = Append(calls, Call("createUsers", ok))
       /\ IF ok
            THEN /\ err' = "nil"
                 /\ ret' = ret
                 /\ pc' = [pc EXCEPT ![p] = "c_list"]
            ELSE /\ err' = "err"
                 /\ ret' = "err"
                 /\ pc' = [pc EXCEPT ![p] = "c_defer"]
  /\ UNCHANGED <<others, op, mu, Status, resources, todo, panicked, SpecVolume, volumes, ufr>>

\* err = c.ListResources(); if err != nil { log }; return nil
Create_ListResources(p) ==
  /\ ~panicked
  /\ pc[p] = "c_list"
  /\ \E ok \in BOOLEAN :
       /\ calls' = Append(calls, Call("ListResources", ok))
       /\ err' = IF ok THEN "nil" ELSE "err"
  /\ ret' = "nil"
  /\ pc' = [pc EXCEPT ![p] = "c_defer"]
  /\ UNCHANGED <<others, op, mu, Status, resources, todo, panicked, SpecVolume, volumes, ufr>>

\* The deferred closure: setStatus(Running) if err == nil, else setStatus(AddFailed).
Create_deferred(p) ==
  /\ ~panicked
  /\ pc[p] = "c_defer"
  /\ Status' = DeferredStatus(err)
  /\ pc' = [pc EXCEPT ![p] = "unlock"]
  /\ UNCHANGED <<others, op, mu, resources, frame, calls, panicked, SpecVolume, volumes, ufr>>

\* ------------------------------------------------------------------ Delete
\* if err := c.deleteEndpoint(); err != nil { return ... }
Delete_deleteEndpoint(p) ==
  /\ ~panicked
  /\ pc[p] = "d_endpoint"
  /\ \E ok \in BOOLEAN :
       /\ calls' = Append(calls, Call("deleteEndpoint", ok))
       /\ IF ok
            THEN /\ Endpoint' = NIL
                 /\ ret' = ret
                 /\ pc' = [pc EXCEPT ![p] = "d_service"]
            ELSE /\ Endpoint' = Endpoint
                 /\ ret' = "err"
                 /\ pc' = [pc EXCEPT ![p] = "unlock"]
  /\ UNCHANGED <<others, op, mu, Status, Service, Statefulset, Secrets, err, todo, panicked, SpecVolume, volumes, ufr>>

\* deleteService whose error is not returned: Delete goes on.
Delete_deleteService_GoesOn(p) ==
  /\ ~panicked
  /\ pc[p] = "d_service"
  /\ \E ok \in BOOLEAN :
       /\ calls' = Append(calls, Call("deleteService", ok))
       /\ Service' = IF ok THEN NIL ELSE Service
       /\ ret' = ret
       /\ pc' = [pc EXCEPT ![p] = "d_statefulset"]
  /\ UNCHANGED <<others, op, mu, Status, Endpoint, Statefulset, Secrets,
                 err, todo, panicked, SpecVolume, volumes, ufr>>

\* if err := c.deleteService(); err != nil { return ... }
Delete_deleteService(p) ==
  /\ ~panicked
  /\ pc[p] = "d_service"
  /\ \E ok \in BOOLEAN :
       /\ calls' = Append(calls, Call("deleteService", ok))
       /\ IF ok
            THEN /\ Service' = NIL
                 /\ ret' = ret
                 /\ pc' = [pc EXCEPT ![p] = "d_statefulset"]
            ELSE /\ Service' = Service
                 /\ ret' = "err"
                 /\ pc' = [pc EXCEPT ![p] = "unlock"]
  /\ UNCHANGED <<others, op, mu, Status, Endpoint, Statefulset, Secrets, err, todo, panicked, SpecVolume, volumes, ufr>>

\* if err := c.deleteStatefulSet(); err != nil { return ... }; the range over
\* c.Secrets starts when it succeeded.
Delete_deleteStatefulSet(p) ==
  /\ ~panicked
  /\ pc[p] = "d_statefulset"
  /\ \E ok \in BOOLEAN :
       /\ calls' = Append(calls, Call("deleteStatefulSet", ok))
       /\ IF ok
            THEN /\ Statefulset' = NIL
                 /\ ret' = ret
                 /\ todo' = Secrets
                 /\ pc' = [pc EXCEPT ![p] = "d_secrets"]
            ELSE /\ Statefulset' = Statefulset
                 /\ ret' = "err"
                 /\ todo' = todo
                 /\ pc' = [pc EXCEPT ![p] = "unlock"]
  /\ UNCHANGED <<others, op, mu, Status, Endpoint, Service, Secrets, err, panicked, SpecVolume, volumes, ufr>>

\* One iteration of: for _, obj := range c.Secrets { if err := c.deleteSecret(obj) ... }
\* The map is ranged over in an unspecified order.
Delete_deleteSecret(p) ==
  /\ ~panicked
  /\ pc[p] = "d_secrets"
  /\ todo # {}
  /\ \E uid \in todo, ok \in BOOLEAN :
       /\ calls' = Append(calls, [call |-> "deleteSecret", ok |-> ok, uid |-> uid])
       /\ todo' = todo \ {uid}
       /\ IF ok
            THEN /\ Secrets' = Secrets \ {uid}
                 /\ ret' = ret
                 /\ pc' = pc
            ELSE /\ Secrets' = Secrets
                 /\ ret' = "err"
                 /\ pc' = [pc EXCEPT ![p] = "unlock"]
  /\ UNCHANGED <<others, op, mu, Status, Endpoint, Service, Statefulset, err, panicked, SpecVolume, volumes, ufr>>

\* The range is exhausted: return nil.
Delete_return(p) ==
  /\ ~panicked
  /\ pc[p] = "d_secrets"
  /\ todo = {}
  /\ ret' = "nil"
  /\ pc' = [pc EXCEPT ![p] = "unlock"]
  /\ UNCHANGED <<others, op, mu, Status, resources, err, todo,
                 calls, panicked, SpecVolume, volumes, ufr>>

\* ------------------------------------------------------------------ Update
\* What Update and updateVolumes never write.
notUpdate == <<op, err, todo, SpecVolume>>

\* A run-time panic in the body: the deferred c.mu.Unlock() runs and the
\* process ends.
Panic(p) ==
  /\ panicked' = TRUE
  /\ mu' = 0
  /\ pc' = [pc EXCEPT ![p] = "panicked"]

\* c.setStatus(spec.ClusterStatusUpdating)
Update_setStatus(p) ==
  /\ ~panicked
  /\ pc[p] = "u_setStatus"
  /\ Status' = ClusterStatusUpdating
  /\ pc' = [pc EXCEPT ![p] = "u_service"]
  /\ UNCHANGED <<others, notUpdate, mu, resources, volumes, ret, calls, panicked, ufr>>

\* sameServiceWith: match iff the LoadBalancerSourceRanges are deeply equal.
sameServiceWith(cur, service) ==
  cur.LoadBalancerSourceRanges = service.LoadBalancerSourceRanges

\* newService := c.genService(newSpec.Spec.AllowedSourceRanges)
\* if match, reason := c.sameServiceWith(newService); !match {
\*   if err := c.updateService(newService); err != nil { setStatus(UpdateFailed); return } }
\* sameServiceWith reads c.Service.Spec: a nil c.Service panics.
Update_service(p) ==
  /\ ~panicked
  /\ pc[p] = "u_service"
  /\ \E ranges \in SourceRanges, ok \in BOOLEAN :
       /\ newService' = [LoadBalancerSourceRanges |-> ranges]
       /\ IF Service = NIL
            THEN /\ Panic(p)
                 /\ UNCHANGED <<Status, Service, ret, calls>>
            ELSE IF sameServiceWith(Service, newService')
              THEN /\ pc' = [pc EXCEPT ![p] = "u_volume"]
                   /\ UNCHANGED <<mu, panicked, Status, Service, ret, calls>>
              ELSE /\ calls' = Append(calls, Call("updateService", ok))
                   /\ IF ok
                        THEN /\ Service' = newService'
                             /\ pc' = [pc EXCEPT ![p] = "u_volume"]
                             /\ UNCHANGED <<Status, ret>>
                        ELSE /\ Status' = ClusterStatusUpdateFailed
                             /\ ret' = "err"
                             /\ pc' = [pc EXCEPT ![p] = "unlock"]
                             /\ UNCHANGED Service
                   /\ UNCHANGED <<mu, panicked>>
  /\ UNCHANGED <<others, notUpdate, Endpoint, Statefulset, Secrets, volumes, listed, newQuantity,
                 newSize, parseErr, vi, newStatefulSet, cmp>>

\* sameVolumeWith: match iff the whole volume specification is deeply equal.
sameVolumeWith(cur, volume) == cur = volume

\* ------------------------------------------------------------ updateVolumes
\* if match, reason := c.sameVolumeWith(newSpec.Spec.Volume); !match { updateVolumes }
\* and the head of updateVolumes(newVolume):
\*   newQuantity, err := resource.ParseQuantity(newVolume.Size)
\*   newSize := newQuantity.ScaledValue(0) / (1073741824)
\*   pvs, err := c.listPersistentVolumes()
\* The error of ParseQuantity is overwritten without having been read.
Update_volume(p) ==
  /\ ~panicked
  /\ pc[p] = "u_volume"
  /\ \E newVolume \in Volumes, ok \in BOOLEAN :
       IF sameVolumeWith(SpecVolume, newVolume)
         THEN /\ pc' = [pc EXCEPT ![p] = "u_genStatefulSet"]
              /\ UNCHANGED <<listed, newQuantity, newSize, parseErr, calls, ret>>
         ELSE /\ newQuantity' = ParseQuantity(newVolume.Size).q
              /\ newSize' = WholeGiB(ParseQuantity(newVolume.Size).q)
              /\ parseErr' = ParseQuantity(newVolume.Size).err
              /\ calls' = Append(calls, Call("listPersistentVolumes", ok))
              /\ IF ok
                   THEN /\ listed' = pvs
                        /\ pc' = [pc EXCEPT ![p] = "v_connect"]
                        /\ ret' = ret
                   ELSE /\ listed' = listed
                        /\ pc' = [pc EXCEPT ![p] = "unlock"]
                        /\ ret' = "err"
  /\ UNCHANGED <<others, notUpdate, mu, Status, resources, volumes, panicked,
                 newService, vi, newStatefulSet, cmp>>

\* ec2, err := volumes.ConnectToEC2()
updateVolumes_ConnectToEC2(p) ==
  /\ ~panicked
  /\ pc[p] = "v_connect"
  /\ \E ok \in BOOLEAN :
       /\ calls' = Append(calls, Call("ConnectToEC2", ok))
       /\ IF ok
            THEN /\ pc' = [pc EXCEPT ![p] = "v_range"]
                 /\ ret' = ret
            ELSE /\ pc' = [pc EXCEPT ![p] = "unlock"]
                 /\ ret' = "err"
  /\ vi' = 0
  /\ UNCHANGED <<others, notUpdate, mu, Status, resources, volumes, panicked,
                 newService, listed, newQuantity, newSize, parseErr, newStatefulSet, cmp>>

\* if cap.ScaledValue(0)/(1073741824) != newSize
NeedsResize(pv, size) == WholeGiB(pv.Capacity) # size

\* The head of: for _, pv := range pvs.  A volume of the wanted size is passed
\* over; for another one the EBS volume id is extracted first.  When the range
\* is exhausted updateVolumes returns nil and its local variables are gone.
updateVolumes_range(p) ==
  /\ ~panicked
  /\ pc[p] = "v_range"
  /\ IF ~(vi < Len(listed))
       THEN /\ pc' = [pc EXCEPT ![p] = "u_genStatefulSet"]
            /\ listed' = <<>>
            /\ newQuantity' = 0
            /\ newSize' = 0
            /\ parseErr' = FALSE
            /\ vi' = 0
            /\ ret' = ret
       ELSE IF ~NeedsResize(listed[vi + 1], newSize)
         THEN /\ vi' = vi + 1
              /\ UNCHANGED <<pc, ret, listed, newQuantity, newSize, parseErr>>
         ELSE IF getAWSVolumeId(listed[vi + 1]).err
           THEN /\ ret' = "err"
                /\ pc' = [pc EXCEPT ![p] = "unlock"]
                /\ UNCHANGED <<vi, listed, newQuantity, newSize, parseErr>>
           ELSE /\ pc' = [pc EXCEPT ![p] = "v_resize"]
                /\ UNCHANGED <<vi, ret, listed, newQuantity, newSize, parseErr>>
  /\ UNCHANGED <<others, notUpdate, mu, Status, resources, volumes, calls, panicked,
                 newService, newStatefulSet, cmp>>

\* ResizeVolume whose failure skips the volume instead of returning.
updateVolumes_ResizeVolume_Continue(p) ==
  /\ ~panicked
  /\ pc[p] = "v_resize"
  /\ \E ok \in BOOLEAN :
       /\ calls' = Append(calls, [call |-> "ResizeVolume", ok |-> ok, vol |-> vi,
                                  size |-> newSize])
       /\ IF ok
            THEN /\ ebs' = [ebs EXCEPT ![vi + 1] = newSize]
                 /\ pc' = [pc EXCEPT ![p] = "v_resizeFS"]
                 /\ vi' = vi
            ELSE /\ ebs' = ebs
                 /\ pc' = [pc EXCEPT ![p] = "v_range"]
                 /\ vi' = vi + 1
       /\ ret' = ret
  /\ UNCHANGED <<others, notUpdate, mu, Status, resources, pvs, panicked, newService, listed,
                 newQuantity, newSize, parseErr, newStatefulSet, cmp>>

\* if err := volumes.ResizeVolume(ec2, awsVolumeId, newSize); err != nil { return }
updateVolumes_ResizeVolume(p) ==
  /\ ~panicked
  /\ pc[p] = "v_resize"
  /\ \E ok \in BOOLEAN :
       /\ calls' = Append(calls, [call |-> "ResizeVolume", ok |-> ok, vol |-> vi,
                                  size |-> newSize])
       /\ IF ok
            THEN /\ ebs' = [ebs EXCEPT ![vi + 1] = newSize]
                 /\ pc' = [pc EXCEPT ![p] = "v_resizeFS"]
                 /\ ret' = ret
            ELSE /\ ebs' = ebs
                 /\ pc' = [pc EXCEPT ![p] = "unlock"]
                 /\ ret' = "err"
  /\ UNCHANGED <<others, notUpdate, mu, Status, resources, pvs, panicked, ufr>>

\* resizeVolumeFS whose error is not looked at.
updateVolumes_resizeVolumeFS_Ignored(p) ==
  /\ ~panicked
  /\ pc[p] = "v_resizeFS"
  /\ \E out \in ExecOutputs, execErr \in BOOLEAN :
       LET res == resizeVolumeFS(out, execErr)
       IN  /\ calls' = Append(calls, [call |-> "resizeVolumeFS", ok |-> (res = "nil"),
                                      vol |-> vi, out |-> out, execErr |-> execErr])
           /\ pc' = [pc EXCEPT ![p] = "v_updatePV"]
           /\ ret' = ret
  /\ UNCHANGED <<others, notUpdate, mu, Status, resources, volumes, panicked, ufr>>

\* if err := c.resizeVolumeFS(podName); err != nil { return }
updateVolumes_resizeVolumeFS(p) ==
  /\ ~panicked
  /\ pc[p] = "v_resizeFS"
  /\ \E out \in ExecOutputs, execErr \in BOOLEAN :
       LET res == resizeVolumeFS(out, execErr)
       IN  /\ calls' = Append(calls, [call |-> "resizeVolumeFS", ok |-> (res = "nil"),
                                      vol |-> vi, out |-> out, execErr |-> execErr])
           /\ IF res = "nil"
                THEN /\ pc' = [pc EXCEPT ![p] = "v_updatePV"]
                     /\ ret' = ret
                ELSE /\ pc' = [pc EXCEPT ![p] = "unlock"]
                     /\ ret' = "err"
  /\ UNCHANGED <<others, notUpdate, mu, Status, resources, volumes, panicked, ufr>>

\* pv.Spec.Capacity[v1.ResourceStorage] = newQuantity: written to the object that
\* is sent to the control plane; the range does not read it again.
\* if _, err := c.KubeClient.PersistentVolumes().Update(pv); err != nil { return }
updateVolumes_UpdatePersistentVolume(p) ==
  /\ ~panicked
  /\ pc[p] = "v_updatePV"
  /\ \E ok \in BOOLEAN :
       /\ calls' = Append(calls, [call |-> "PersistentVolumes.Update", ok |-> ok,
                                  vol |-> vi, size |-> newQuantity])
       /\ IF ok
            THEN /\ pvs' = [pvs EXCEPT ![vi + 1].Capacity = newQuantity]
                 /\ vi' = vi + 1
                 /\ pc' = [pc EXCEPT ![p] = "v_range"]
                 /\ ret' = ret
            ELSE /\ pvs' = pvs
                 /\ vi' = vi
                 /\ pc' = [pc EXCEPT ![p] = "unlock"]
                 /\ ret' = "err"
  /\ UNCHANGED <<others, notUpdate, mu, Status, resources, ebs, panicked,
                 newService, listed, newQuantity, newSize, parseErr, newStatefulSet, cmp>>

\* The remediation with the test of cmp.replace inverted.
StatefulSetRemediation_Inverted(c) ==
  IF ~c.match
    THEN IF c.replace THEN "u_updateStatefulSet" ELSE "u_replaceStatefulSet"
    ELSE "u_recreatePods"

\* --------------------------------------------------- Update, statefulset part
\* if !cmp.match { if !cmp.replace { updateStatefulSet } else { replaceStatefulSet } }
StatefulSetRemediation(c) ==
  IF ~c.match
    THEN IF ~c.replace THEN "u_updateStatefulSet" ELSE "u_replaceStatefulSet"
    ELSE "u_recreatePods"

\* newStatefulSet, err := c.genStatefulSet(newSpec.Spec); if err != nil { return }
\* cmp := c.compareStatefulSetWith(newStatefulSet)
Update_compareStatefulSetWith(p) ==
  /\ ~panicked
  /\ pc[p] = "u_genStatefulSet"
  /\ \E ok \in BOOLEAN, ss \in StatefulSets :
       /\ calls' = Append(calls, Call("genStatefulSet", ok))
       /\ IF ~ok
            THEN /\ pc' = [pc EXCEPT ![p] = "unlock"]
                 /\ ret' = "err"
                 /\ UNCHANGED <<mu, panicked, newStatefulSet, cmp>>
            ELSE LET c == compareStatefulSetWith(Statefulset, ss)
                 IN  IF c.panic
                       THEN /\ Panic(p)
                            /\ UNCHANGED <<ret, newStatefulSet, cmp>>
                       ELSE /\ newStatefulSet' = ss
                            /\ cmp' = c
                            /\ pc' = [pc EXCEPT ![p] = StatefulSetRemediation(c)]
                            /\ UNCHANGED <<mu, panicked, ret>>
  /\ UNCHANGED <<others, notUpdate, Status, resources, volumes, newService, listed, newQuantity,
                 newSize, parseErr, vi>>

\* if err := c.updateStatefulSet(newStatefulSet); err != nil { setStatus(UpdateFailed); return }
Update_updateStatefulSet(p) ==
  /\ ~panicked
  /\ pc[p] = "u_updateStatefulSet"
  /\ \E ok \in BOOLEAN :
       /\ calls' = Append(calls, Call("updateStatefulSet", ok))
       /\ IF ok
            THEN /\ Statefulset' = newStatefulSet
                 /\ pc' = [pc EXCEPT ![p] = "u_recreatePods"]
                 /\ UNCHANGED <<Status, ret>>
            ELSE /\ Status' = ClusterStatusUpdateFailed
                 /\ ret' = "err"
                 /\ pc' = [pc EXCEPT ![p] = "unlock"]
                 /\ UNCHANGED Statefulset
  /\ UNCHANGED <<others, notUpdate, mu, Endpoint, Service, Secrets, volumes, panicked, ufr>>

\* if err := c.replaceStatefulSet(newStatefulSet); err != nil { setStatus(UpdateFailed); return }
Update_replaceStatefulSet(p) ==
  /\ ~panicked
  /\ pc[p] = "u_replaceStatefulSet"
  /\ \E ok \in BOOLEAN :
       /\ calls' = Append(calls, Call("replaceStatefulSet", ok))
       /\ IF ok
            THEN /\ Statefulset' = newStatefulSet
                 /\ pc' = [pc EXCEPT ![p] = "u_recreatePods"]
                 /\ UNCHANGED <<Status, ret>>
            ELSE /\ Status' = ClusterStatusUpdateFailed
                 /\ ret' = "err"
                 /\ pc' = [pc EXCEPT ![p] = "unlock"]
                 /\ UNCHANGED Statefulset
  /\ UNCHANGED <<others, notUpdate, mu, Endpoint, Service, Secrets, volumes, panicked, ufr>>

\* The pods recreated on cmp.replace instead of cmp.rollingUpdate.
NeedsRecreatePods_OnReplace(c) == c.replace

\* if cmp.rollingUpdate
NeedsRecreatePods(c) == c.rollingUpdate

\* if cmp.rollingUpdate { if err := c.recreatePods(); err != nil { setStatus(UpdateFailed); return } }
Update_recreatePods(p) ==
  /\ ~panicked
  /\ pc[p] = "u_recreatePods"
  /\ NeedsRecreatePods(cmp)
  /\ \E ok \in BOOLEAN :
       /\ calls' = Append(calls, Call("recreatePods", ok))
       /\ IF ok
            THEN /\ pc' = [pc EXCEPT ![p] = "u_setRunning"]
                 /\ UNCHANGED <<Status, ret>>
            ELSE /\ Status' = ClusterStatusUpdateFailed
                 /\ ret' = "err"
                 /\ pc' = [pc EXCEPT ![p] = "unlock"]
  /\ UNCHANGED <<others, notUpdate, mu, resources, volumes, panicked, ufr>>

\* c.setStatus(spec.ClusterStatusRunning); return nil
Update_setRunning(p) ==
  /\ ~panicked
  /\ \/ pc[p] = "u_setRunning"
     \/ pc[p] = "u_recreatePods" /\ ~NeedsRecreatePods(cmp)
  /\ Status' = ClusterStatusRunning
  /\ ret' = "nil"
  /\ pc' = [pc EXCEPT ![p] = "unlock"]
  /\ UNCHANGED <<others, notUpdate, mu, resources, volumes, calls, panicked, ufr>>

\* ------------------------------------------------------------ specification
Next ==
  \E p \in Procs :
    \/ Create_Lock(p)
    \/ Update_Lock(p)
    \/ Delete_Lock(p)
    \/ Unlock(p)
    \/ Create_setStatus(p)
    \/ Create_createEndpoint(p)
    \/ Create_createService(p)
    \/ Create_initUsers(p)
    \/ Create_applySecrets(p)
    \/ Create_createStatefulSet(p)
    \/ Create_waitStatefulsetPodsReady(p)
    \/ Create_checkDbAccess(p)
    \/ Create_initDbConn(p)
    \/ Create_createUsers(p)
    \/ Create_ListResources(p)
    \/ Create_deferred(p)
    \/ Delete_deleteEndpoint(p)
    \/ Delete_deleteService(p)
    \/ Delete_deleteStatefulSet(p)
    \/ Delete_deleteSecret(p)
    \/ Delete_return(p)
    \/ Update_setStatus(p)
    \/ Update_service(p)
    \/ Update_volume(p)
    \/ updateVolumes_ConnectToEC2(p)
    \/ updateVolumes_range(p)
    \/ updateVolumes_ResizeVolume(p)
    \/ updateVolumes_resizeVolumeFS(p)
    \/ updateVolumes_UpdatePersistentVolume(p)
    \/ Update_compareStatefulSetWith(p)
    \/ Update_updateStatefulSet(p)
    \/ Update_replaceStatefulSet(p)
    \/ Update_recreatePods(p)
    \/ Update_setRunning(p)

Spec == Init /\ [][Next]_vars

\* ------------------------------------------------------ pod event pipeline
\* What the pod event pipeline leaves alone.
lifecycle == <<pc, op, mu, Status, resources, frame, calls, panicked, SpecVolume,
               volumes, ufr, rcall, users>>

\* Add that appends the key whether or not it is queued.
Add_Append(q, e) ==
  LET id == KeyFunc(e)
  IN  [queue |-> Append(q.queue, id),
       items |-> [k \in DOMAIN q.items \cup {id} |-> IF k = id THEN e ELSE q.items[k]]]

\* cache.FIFO.Add on c.podEventsQueue: a key that is not queued is appended to
\* the queue; the item kept under the key becomes the added one.
Add(q, e) ==
  LET id == KeyFunc(e)
  IN  [queue |-> IF id \in DOMAIN q.items THEN q.queue ELSE Append(q.queue, id),
       items |-> [k \in DOMAIN q.items \cup {id} |-> IF k = id THEN e ELSE q.items[k]]]

\* c.podEventsQueue.Add(event), by any goroutine.  The queue's lock is held by
\* Pop while its process function runs, so Add waits for processPodEvent.
ReceivePodEvent(event) ==
  /\ Len(submitted) < MaxSubmits
  /\ dpc \notin {"lookup", "send"}
  /\ podEventsQueue' = Add(podEventsQueue, event)
  /\ enqueued' = IF KeyFunc(event) \in DOMAIN podEventsQueue.items
                   THEN enqueued
                   ELSE Append(enqueued, KeyFunc(event))
  /\ submitted' = Append(submitted, event)
  /\ UNCHANGED <<lifecycle, podSubscribers, stopCh, dpc, obj, subscriber, nextChan,
                 delivered, dropped>>

\* go c.processPodEventQueue(stopCh)
Run ==
  /\ dpc = "off"
  /\ dpc' = "select"
  /\ UNCHANGED <<lifecycle, podEventsQueue, podSubscribers, stopCh, obj, subscriber,
                 nextChan, enqueued, delivered, dropped, submitted>>

\* The owner of stopCh closes it.
Stop ==
  /\ ~stopCh
  /\ stopCh' = TRUE
  /\ UNCHANGED <<lifecycle, podEventsQueue, podSubscribers, dpc, obj, subscriber,
                 nextChan, enqueued, delivered, dropped, submitted>>

\* select { case <-stopCh: return; default: ... }
processPodEventQueue_select ==
  /\ dpc = "select"
  /\ dpc' = IF stopCh THEN "done" ELSE "pop"
  /\ UNCHANGED <<lifecycle, podEventsQueue, podSubscribers, stopCh, obj, subscriber,
                 nextChan, enqueued, delivered, dropped, submitted>>

\* Pop that removes the newest key instead of the oldest.
processPodEventQueue_Pop_Newest ==
  /\ dpc = "pop"
  /\ podEventsQueue.queue # <<>>
  /\ LET last == Len(podEventsQueue.queue)
         id == podEventsQueue.queue[last]
     IN  /\ obj' = [n |-> CHOOSE i \in DOMAIN enqueued :
                            /\ enqueued[i] = id
                            /\ \A j \in DOMAIN enqueued : enqueued[j] = id => j <= i,
                    event |-> podEventsQueue.items[id]]
         /\ podEventsQueue' =
              [queue |-> SubSeq(podEventsQueue.queue, 1, last - 1),
               items |-> [k \in DOMAIN podEventsQueue.items \ {id} |-> podEventsQueue.items[k]]]
  /\ dpc' = "lookup"
  /\ UNCHANGED <<lifecycle, podSubscribers, stopCh, subscriber, nextChan, enqueued,
                 delivered, dropped, submitted>>

\* Pop that runs only while Cluster.mu is free.
processPodEventQueue_Pop_Locked ==
  /\ dpc = "pop"
  /\ mu = 0
  /\ podEventsQueue.queue # <<>>
  /\ LET id == Head(podEventsQueue.queue)
     IN  /\ obj' = [n |-> Len(enqueued) - Len(podEventsQueue.queue) + 1,
                    event |-> podEventsQueue.items[id]]
         /\ podEventsQueue' =
              [queue |-> Tail(podEventsQueue.queue),
               items |-> [k \in DOMAIN podEventsQueue.items \ {id} |-> podEventsQueue.items[k]]]
  /\ dpc' = "lookup"
  /\ UNCHANGED <<lifecycle, podSubscribers, stopCh, subscriber, nextChan, enqueued,
                 delivered, dropped, submitted>>

\* c.podEventsQueue.Pop(...): waits while the queue is empty, then removes the
\* oldest key and its item and calls processPodEvent on the item.
processPodEventQueue_Pop ==
  /\ dpc = "pop"
  /\ podEventsQueue.queue # <<>>
  /\ LET id == Head(podEventsQueue.queue)
     IN  /\ obj' = [n |-> Len(enqueued) - Len(podEventsQueue.queue) + 1,
                    event |-> podEventsQueue.items[id]]
         /\ podEventsQueue' =
              [queue |-> Tail(podEventsQueue.queue),
               items |-> [k \in DOMAIN podEventsQueue.items \ {id} |-> podEventsQueue.items[k]]]
  /\ dpc' = "lookup"
  /\ UNCHANGED <<lifecycle, podSubscribers, stopCh, subscriber, nextChan, enqueued,
                 delivered, dropped, submitted>>

\* subscriber, ok := c.podSubscribers[event.PodName] under podSubscribersMu.RLock;
\* without a subscriber processPodEvent returns nil.
processPodEvent_lookup ==
  /\ dpc = "lookup"
  /\ LET ch == podSubscribers[obj.event.PodName]
     IN  IF ch # 0
           THEN /\ subscriber' = ch
                /\ dpc' = "send"
                /\ UNCHANGED <<obj, dropped>>
           ELSE /\ dropped' = dropped \cup {obj.n}
                /\ obj' = NIL
                /\ dpc' = "select"
                /\ UNCHANGED subscriber
  /\ UNCHANGED <<lifecycle, podEventsQueue, podSubscribers, stopCh, nextChan, enqueued,
                 delivered, submitted>>

\* subscriber <- event: completes when the subscriber receives from the channel.
processPodEvent_send ==
  /\ dpc = "send"
  /\ \E pod \in Pods :
       /\ podSubscribers[pod] = subscriber
       /\ delivered' = Append(delivered, [n |-> obj.n, event |-> obj.event,
                                          ch |-> subscriber, pod |-> pod])
  /\ obj' = NIL
  /\ subscriber' = 0
  /\ dpc' = "select"
  /\ UNCHANGED <<lifecycle, podEventsQueue, podSubscribers, stopCh, nextChan, enqueued,
                 dropped, submitted>>

\* A waiter registers a new channel for a pod that has none.
registerPodSubscriber(pod) ==
  /\ podSubscribers[pod] = 0
  /\ nextChan < MaxChans
  /\ nextChan' = nextChan + 1
  /\ podSubscribers' = [podSubscribers EXCEPT ![pod] = nextChan + 1]
  /\ UNCHANGED <<lifecycle, podEventsQueue, stopCh, dpc, obj, subscriber, enqueued,
                 delivered, dropped, submitted>>

\* The waiter of a pod removes its channel and stops receiving.
unregisterPodSubscriber(pod) ==
  /\ podSubscribers[pod] # 0
  /\ podSubscribers' = [podSubscribers EXCEPT ![pod] = 0]
  /\ UNCHANGED <<lifecycle, podEventsQueue, stopCh, dpc, obj, subscriber, nextChan,
                 enqueued, delivered, dropped, submitted>>

\* Create by caller 1 has created the statefulset and waits, holding the
\* mutex, for the pods to be ready; the pod event pipeline is as New left it.
InitEvents ==
  /\ pc = [p \in Procs |-> IF p = 1 THEN "c_wait" ELSE "idle"]
  /\ op = [p \in Procs |-> IF p = 1 THEN "Create" ELSE "none"]
  /\ mu = 1
  /\ Status = ClusterStatusCreating
  /\ Endpoint = [Name |-> "ep"]
  /\ Service = [LoadBalancerSourceRanges |-> <<>>]
  /\ Statefulset = BaseStatefulSet
  /\ Secrets = SecretUIDs
  /\ err = "nil"
  /\ ret = "none"
  /\ todo = {}
  /\ calls = << Call("createEndpoint", TRUE), Call("createService", TRUE),
                Call("initUsers", TRUE), Call("applySecrets", TRUE),
                Call("createStatefulSet", TRUE) >>
  /\ panicked = FALSE
  /\ SpecVolume = [Size |-> [num |-> 1, unit |-> "Gi"], StorageClass |-> "gp2"]
  /\ pvs = <<[Capacity |-> GiB, VolumeID |-> GoodVolumeID]>>
  /\ ebs = [i \in DOMAIN pvs |-> WholeGiB(pvs[i].Capacity)]
  /\ newService = NIL
  /\ parseErr = FALSE
  /\ listed = <<>>
  /\ newQuantity = 0
  /\ newSize = 0
  /\ vi = 0
  /\ newStatefulSet = NIL
  /\ cmp = NIL
  /\ NewDispatch
  /\ NoResourcesCall
  /\ NewUsers

NextEvents ==
  \/ \E event \in PodEvents : ReceivePodEvent(event)
  \/ Run
  \/ Stop
  \/ processPodEventQueue_select
  \/ processPodEventQueue_Pop
  \/ processPodEvent_lookup
  \/ processPodEvent_send
  \/ \E pod \in Pods : registerPodSubscriber(pod)
  \/ \E pod \in Pods : unregisterPodSubscriber(pod)

\* The goroutine of processPodEventQueue is scheduled whenever it can run, and
\* a registered subscriber receives from its channel.
SpecEvents ==
  /\ InitEvents
  /\ [][NextEvents]_vars
  /\ WF_vars(Run)
  /\ WF_vars(processPodEventQueue_select)
  /\ WF_vars(processPodEventQueue_Pop)
  /\ WF_vars(processPodEvent_lookup)
  /\ WF_vars(processPodEvent_send)

\* --------------------------------------- compareStatefulSetWith on its own
\* cmp := c.compareStatefulSetWith(newStatefulSet)
Update_compare(p) ==
  /\ pc[p] = "u_compare"
  /\ cmp' = compareStatefulSetWith(Statefulset, newStatefulSet)
  /\ pc' = [pc EXCEPT ![p] = "u_compared"]
  /\ UNCHANGED <<others, op, mu, Status, resources, frame, calls, panicked, SpecVolume,
                 volumes, newService, listed, newQuantity, newSize, parseErr, vi,
                 newStatefulSet>>

\* An Update call that has generated the new statefulset and is about to
\* compare it, for every pair of a live and a new statefulset.
InitCompare ==
  /\ pc = [p \in Procs |-> IF p = 1 THEN "u_compare" ELSE "idle"]
  /\ op = [p \in Procs |-> IF p = 1 THEN "Update" ELSE "none"]
  /\ mu = 1
  /\ Status = ClusterStatusUpdating
  /\ Endpoint = [Name |-> "ep"]
  /\ Service = [LoadBalancerSourceRanges |-> <<>>]
  /\ Statefulset \in CompareInputs
  /\ Secrets = SecretUIDs
  /\ err = "nil"
  /\ ret = "none"
  /\ todo = {}
  /\ calls = <<Call("genStatefulSet", TRUE)>>
  /\ panicked = FALSE
  /\ SpecVolume = [Size |-> [num |-> 1, unit |-> "Gi"], StorageClass |-> "gp2"]
  /\ pvs = <<[Capacity |-> GiB, VolumeID |-> GoodVolumeID]>>
  /\ ebs = [i \in DOMAIN pvs |-> WholeGiB(pvs[i].Capacity)]
  /\ newService = Service
  /\ parseErr = FALSE
  /\ listed = <<>>
  /\ newQuantity = 0
  /\ newSize = 0
  /\ vi = 0
  /\ newStatefulSet \in CompareInputs
  /\ cmp = NIL
  /\ NewDispatch
  /\ NoResourcesCall
  /\ NewUsers

NextCompare == \E p \in Procs : Update_compare(p)

SpecCompare == InitCompare /\ [][NextCompare]_vars

\* --------------------------------------------- compareResources on its own
\* v1.ResourceList values: a quantity for some of the resource names.
ResourceNames == {"cpu", "memory"}
Quantities == {1, 2}
ResourceLists ==
  UNION { [names -> Quantities] : names \in SUBSET ResourceNames }
ResourceRequirements == [Requests : ResourceLists, Limits : ResourceLists]

\* equal = compareResources(a, b)
compareResources_call ==
  /\ equal = NIL
  /\ equal' = [equal |-> compareResources(ra, rb)]
  /\ UNCHANGED <<pc, op, mu, Status, resources, frame, calls, panicked, SpecVolume,
                 volumes, ufr, dispatch, users, ra, rb>>

\* A call of compareResources on every pair of arguments, nil included, on
\* the cluster as New returns it.
InitResources ==
  /\ pc = [p \in Procs |-> "idle"]
  /\ op = [p \in Procs |-> "none"]
  /\ mu = 0
  /\ Status = ""
  /\ Endpoint = NIL
  /\ Service = NIL
  /\ Statefulset = NIL
  /\ Secrets = {}
  /\ err = "nil"
  /\ ret = "none"
  /\ todo = {}
  /\ calls = <<>>
  /\ panicked = FALSE
  /\ SpecVolume = [Size |-> [num |-> 1, unit |-> "Gi"], StorageClass |-> "gp2"]
  /\ pvs = <<[Capacity |-> GiB, VolumeID |-> GoodVolumeID]>>
  /\ ebs = [i \in DOMAIN pvs |-> WholeGiB(pvs[i].Capacity)]
  /\ newService = NIL
  /\ parseErr = FALSE
  /\ listed = <<>>
  /\ newQuantity = 0
  /\ newSize = 0
  /\ vi = 0
  /\ newStatefulSet = NIL
  /\ cmp = NIL
  /\ NewDispatch
  /\ ra \in ResourceRequirements \cup {NIL}
  /\ rb \in ResourceRequirements \cup {NIL}
  /\ equal = NIL
  /\ NewUsers

NextResources == compareResources_call

SpecResources == InitResources /\ [][NextResources]_vars

\* ------------------------------------------------------ initUsers on its own
\* Usernames as strings of characters: two that alphaNumericRegexp matches, one
\* with a leading digit and one with a separator.
Letters == {"a", "b"}
Digits == {"1"}
Usernames == { <<"a">>, <<"b", "1">>, <<"1", "a">>, <<"a", "_", "b">> }

\* alphaNumericRegexp = ^[a-zA-Z][a-zA-Z0-9]*$
isValidUsername(username) ==
  /\ Len(username) >= 1
  /\ username[1] \in Letters
  /\ \A i \in DOMAIN username : username[i] \in Letters \cup Digits

\* Requested role flags: none, a known flag in lower case, an unknown flag.
FlagLists == { <<>>, <<"superuser">>, <<"bogus">> }

\* normalizeUserFlags: an unknown flag is an error, a known one is returned
\* in upper case.
normalizeUserFlags(userFlags) ==
  IF \E i \in DOMAIN userFlags : userFlags[i] \notin {"superuser", "SUPERUSER"}
    THEN [err |-> TRUE, flags |-> <<>>]
    ELSE [err |-> FALSE, flags |-> [i \in DOMAIN userFlags |-> "SUPERUSER"]]

\* util.RandomPassword(constants.PasswordLength)
RandomPassword == "random"

\* The role initRobotUsers makes of a user of the cluster spec.
RobotUser(username, flags) ==
  [Name |-> username, Password |-> RandomPassword, Flags |-> flags, MemberOf |-> <<>>]

\* The role initHumanUsers makes of a team member.
HumanUser(username) ==
  [Name |-> username, Password |-> "", Flags |-> <<"LOGIN", "SUPERUSER">>,
   MemberOf |-> <<"pamRole">>]

\* The role initInfrastructureRoles stores: data with its flags normalized.
InfrastructureUser(data, flags) == [data EXCEPT !.Flags = flags]

\* The map m after m[k] = new[k] for every key k of new.
Assign(m, new) ==
  [k \in DOMAIN m \cup DOMAIN new |-> IF k \in DOMAIN new THEN new[k] ELSE m[k]]

\* c.initSystemUsers()
initSystemUsers ==
  /\ upc = "initSystemUsers"
  /\ systemUsers' = [k \in {"superuser", "replication"} |->
                       [Name |-> k, Password |-> RandomPassword, Flags |-> <<>>,
                        MemberOf |-> <<>>]]
  /\ upc' = "initInfrastructureRoles"
  /\ UNCHANGED <<lifecycleOnly, dispatch, rcall, pgUsers, InfrastructureRoles, SpecUsers,
                 teamMembers>>

\* c.initInfrastructureRoles(): the range over c.InfrastructureRoles stores the
\* roles until it meets an invalid username or invalid flags; the order of the
\* range is not fixed, so any of the valid roles may have been stored by then.
initInfrastructureRoles ==
  /\ upc = "initInfrastructureRoles"
  /\ LET valid == { u \in DOMAIN InfrastructureRoles :
                      /\ isValidUsername(u)
                      /\ ~normalizeUserFlags(InfrastructureRoles[u].Flags).err }
         Stored(u) == InfrastructureUser(InfrastructureRoles[u],
                                         normalizeUserFlags(InfrastructureRoles[u].Flags).flags)
     IN  IF valid = DOMAIN InfrastructureRoles
           THEN /\ pgUsers' = Assign(pgUsers, [u \in valid |-> Stored(u)])
                /\ upc' = "initRobotUsers"
           ELSE /\ \E done \in SUBSET valid : pgUsers' = Assign(pgUsers, [u \in done |-> Stored(u)])
                /\ upc' = "failed"
  /\ UNCHANGED <<lifecycleOnly, dispatch, rcall, systemUsers, InfrastructureRoles, SpecUsers,
                 teamMembers>>

\* initRobotUsers leaving alone a username that already has a role.
initRobotUsers_KeepExisting ==
  /\ upc = "initRobotUsers"
  /\ LET valid == { u \in DOMAIN SpecUsers :
                      /\ isValidUsername(u)
                      /\ ~normalizeUserFlags(SpecUsers[u]).err }
         Stored(u) == RobotUser(u, normalizeUserFlags(SpecUsers[u]).flags)
     IN  IF valid = DOMAIN SpecUsers
           THEN /\ pgUsers' = Assign(pgUsers, [u \in valid \ DOMAIN pgUsers |-> Stored(u)])
                /\ upc' = "initHumanUsers"
           ELSE /\ \E done \in SUBSET valid :
                     pgUsers' = Assign(pgUsers, [u \in done \ DOMAIN pgUsers |-> Stored(u)])
                /\ upc' = "failed"
  /\ UNCHANGED <<lifecycleOnly, dispatch, rcall, systemUsers, InfrastructureRoles, SpecUsers,
                 teamMembers>>

\* c.initRobotUsers(): the range over c.Spec.Users, likewise.
initRobotUsers ==
  /\ upc = "initRobotUsers"
  /\ LET valid == { u \in DOMAIN SpecUsers :
                      /\ isValidUsername(u)
                      /\ ~normalizeUserFlags(SpecUsers[u]).err }
         Stored(u) == RobotUser(u, normalizeUserFlags(SpecUsers[u]).flags)
     IN  IF valid = DOMAIN SpecUsers
           THEN /\ pgUsers' = Assign(pgUsers, [u \in valid |-> Stored(u)])
                /\ upc' = "initHumanUsers"
           ELSE /\ \E done \in SUBSET valid : pgUsers' = Assign(pgUsers, [u \in done |-> Stored(u)])
                /\ upc' = "failed"
  /\ UNCHANGED <<lifecycleOnly, dispatch, rcall, systemUsers, InfrastructureRoles, SpecUsers,
                 teamMembers>>

\* c.initHumanUsers(): getTeamMembers fails, or returns the members, each of
\* which is stored.
initHumanUsers ==
  /\ upc = "initHumanUsers"
  /\ \/ /\ upc' = "failed"
        /\ UNCHANGED <<pgUsers, teamMembers>>
     \/ \E members \in SUBSET Usernames :
          /\ teamMembers' = members
          /\ pgUsers' = Assign(pgUsers, [u \in members |-> HumanUser(u)])
          /\ upc' = "done"
  /\ UNCHANGED <<lifecycleOnly, dispatch, rcall, systemUsers, InfrastructureRoles, SpecUsers>>

\* The roles an operator configuration or a cluster spec may define.
RoleMaps(values) ==
  UNION { [names -> values] : names \in SUBSET {<<"a">>, <<"b", "1">>, <<"1", "a">>} }

\* Create about to call initUsers, for every set of infrastructure roles of
\* the operator and every set of users of the cluster spec.
InitUsers ==
  /\ pc = [p \in Procs |-> IF p = 1 THEN "c_initUsers" ELSE "idle"]
  /\ op = [p \in Procs |-> IF p = 1 THEN "Create" ELSE "none"]
  /\ mu = 1
  /\ Status = ClusterStatusCreating
  /\ Endpoint = [Name |-> "ep"]
  /\ Service = [LoadBalancerSourceRanges |-> <<>>]
  /\ Statefulset = NIL
  /\ Secrets = {}
  /\ err = "nil"
  /\ ret = "none"
  /\ todo = {}
  /\ calls = <<Call("createEndpoint", TRUE), Call("createService", TRUE)>>
  /\ panicked = FALSE
  /\ SpecVolume = [Size |-> [num |-> 1, unit |-> "Gi"], StorageClass |-> "gp2"]
  /\ pvs = <<[Capacity |-> GiB, VolumeID |-> GoodVolumeID]>>
  /\ ebs = [i \in DOMAIN pvs |-> WholeGiB(pvs[i].Capacity)]
  /\ newService = NIL
  /\ parseErr = FALSE
  /\ listed = <<>>
  /\ newQuantity = 0
  /\ newSize = 0
  /\ vi = 0
  /\ newStatefulSet = NIL
  /\ cmp = NIL
  /\ NewDispatch
  /\ NoResourcesCall
  /\ pgUsers = [u \in {} |-> NIL]
  /\ systemUsers = [u \in {} |-> NIL]
  /\ \E flags \in [{<<"a">>, <<"b", "1">>, <<"1", "a">>} -> FlagLists] :
       InfrastructureRoles \in
         { [u \in names |-> [Name |-> u, Password |-> "infra", Flags |-> flags[u],
                             MemberOf |-> <<>>]] :
             names \in SUBSET {<<"a">>, <<"b", "1">>, <<"1", "a">>} }
  /\ SpecUsers \in RoleMaps(FlagLists)
  /\ teamMembers = {}
  /\ upc = "initSystemUsers"

NextUsers ==
  \/ initSystemUsers
  \/ initInfrastructureRoles
  \/ initRobotUsers
  \/ initHumanUsers

SpecUsersOnly == InitUsers /\ [][NextUsers]_vars

\* ------------------------------------------------ updateVolumes on its own
\* An Update call that has reached the volume comparison (it holds the mutex
\* and has set Updating), for every list of persistent volume records.
InitVolumes ==
  /\ pc = [p \in Procs |-> IF p = 1 THEN "u_volume" ELSE "idle"]
  /\ op = [p \in Procs |-> IF p = 1 THEN "Update" ELSE "none"]
  /\ mu = 1
  /\ Status = ClusterStatusUpdating
  /\ Endpoint = [Name |-> "ep"]
  /\ Service = [LoadBalancerSourceRanges |-> <<>>]
  /\ Statefulset = BaseStatefulSet
  /\ Secrets = SecretUIDs
  /\ err = "nil"
  /\ ret = "none"
  /\ todo = {}
  /\ calls = <<>>
  /\ panicked = FALSE
  /\ SpecVolume = [Size |-> [num |-> 1, unit |-> "Gi"], StorageClass |-> "gp2"]
  /\ pvs \in PVLists
  /\ ebs = [i \in DOMAIN pvs |-> WholeGiB(pvs[i].Capacity)]
  /\ newService = NIL
  /\ parseErr = FALSE
  /\ listed = <<>>
  /\ newQuantity = 0
  /\ newSize = 0
  /\ vi = 0
  /\ newStatefulSet = NIL
  /\ cmp = NIL
  /\ NewDispatch
  /\ NoResourcesCall
  /\ NewUsers

\* The steps of the volume comparison and of updateVolumes.
NextVolumes ==
  \E p \in Procs :
    \/ Update_volume(p)
    \/ updateVolumes_ConnectToEC2(p)
    \/ updateVolumes_range(p)
    \/ updateVolumes_ResizeVolume(p)
    \/ updateVolumes_resizeVolumeFS(p)
    \/ updateVolumes_UpdatePersistentVolume(p)

SpecVolumes == InitVolumes /\ [][NextVolumes]_vars

\* ================================================================== claims
\* Caller p is inside the body of a lifecycle call.
InBody(p) == pc[p] \notin {"idle", "panicked"}
\* Caller p is about to return from the call o: every statement of the body and
\* every deferred status closure has run, only the deferred Unlock is left.
Returning(p, o) == pc[p] = "unlock" /\ op[p] = o
\* The positions of the calls record that hold a call of the given name.
At(name) == { i \in DOMAIN calls : calls[i].call = name }
Succeeded(name) == \E i \in At(name) : calls[i].ok
Failed(name) == \E i \in At(name) : ~calls[i].ok

\* The steps of Create that can fail, in the order of the body.
CreateSteps == <<"createEndpoint", "createService", "initUsers", "applySecrets",
                 "createStatefulSet", "waitStatefulsetPodsReady", "initDbConn",
                 "createUsers">>

\* C1: when a step of Create fails (create endpoint, create service, build the
\* role model, persist the secrets, create the statefulset, wait for the pods,
\* open the database connection, create the database roles), no later step is
\* executed, Create returns an error and the last status it sets is AddFailed.
\* The code does not do this when initDbConn fails.
C1_FailedStepSetsAddFailed ==
  \A p \in Procs :
    Returning(p, "Create") =>
      \A i \in DOMAIN calls :
        (\E k \in DOMAIN CreateSteps : calls[i].call = CreateSteps[k]) /\ ~calls[i].ok
          => /\ i = Len(calls)
             /\ ret = "err"
             /\ Status = ClusterStatusAddFailed

\* C2: whenever Create returns no error, the last status it set is Running.
\* The code does not do this when ListResources fails.
C2_SuccessSetsRunning ==
  \A p \in Procs :
    Returning(p, "Create") /\ ret = "nil" => Status = ClusterStatusRunning

\* C3: if a step of Update fails, Update returns an error and the status after
\* the call is UpdateFailed; if every step succeeds the status is Running; the
\* status is never still Updating once Update has returned.  The code leaves
\* Updating when updateVolumes or genStatefulSet fails.
C3_UpdateStatusAfterReturn ==
  \A p \in Procs :
    Returning(p, "Update") =>
      /\ (\E i \in DOMAIN calls : ~calls[i].ok)
           => ret = "err" /\ Status = ClusterStatusUpdateFailed
      /\ ret = "err" => Status = ClusterStatusUpdateFailed
      /\ ret = "nil" => Status = ClusterStatusRunning
      /\ Status # ClusterStatusUpdating

\* C4 as stated: every change of the status is one of Creating->Running,
\* Creating->AddFailed, Running->Updating, Updating->Running,
\* Updating->UpdateFailed; in particular Updating is entered only from Running.
\* (Changes before the first Create, where the status is the zero value, and
\* the entries into Creating are left aside: the claim exempts the first.)
C4_OnlyDiagramTransitions ==
  [][Status # "" /\ Status' # Status /\ Status' # ClusterStatusCreating
       => <<Status, Status'>> \in
            { <<ClusterStatusCreating, ClusterStatusRunning>>,
              <<ClusterStatusCreating, ClusterStatusAddFailed>>,
              <<ClusterStatusRunning, ClusterStatusUpdating>>,
              <<ClusterStatusUpdating, ClusterStatusRunning>>,
              <<ClusterStatusUpdating, ClusterStatusUpdateFailed>> }]_vars

\* C4 amended: every change of the status is Creating->Running,
\* Creating->AddFailed, Updating->Running or Updating->UpdateFailed, or it is
\* the first statement of Create entering Creating, or the first statement of
\* Update entering Updating, from whatever status the cluster has.
C4_StatusTransitions ==
  [][Status' # Status
       => \/ /\ Status' = ClusterStatusCreating
             /\ \E p \in Procs : op[p] = "Create" /\ pc[p] = "c_setStatus"
          \/ /\ Status' = ClusterStatusUpdating
             /\ \E p \in Procs : op[p] = "Update" /\ pc[p] = "u_setStatus"
          \/ /\ Status = ClusterStatusCreating
             /\ Status' \in {ClusterStatusRunning, ClusterStatusAddFailed}
          \/ /\ Status = ClusterStatusUpdating
             /\ Status' \in {ClusterStatusRunning, ClusterStatusUpdateFailed}]_vars

\* Update holds the mutex of a cluster whose Create failed and is about to set
\* Updating: its one possible step is AddFailed->Updating.
C4_Witness ==
  \E p \in Procs :
    op[p] = "Update" /\ pc[p] = "u_setStatus" /\ mu = p /\ Status = ClusterStatusAddFailed

\* C5: at most one of Create, Update and Delete executes its body at a time:
\* whoever is inside a body holds the mutex, so no second caller is.
C5_MutualExclusion ==
  /\ \A p \in Procs : InBody(p) => mu = p
  /\ \A p, q \in Procs : InBody(p) /\ InBody(q) => p = q

\* A caller waits for the pods inside Create while another caller is outside.
C5_Witness ==
  \E p, q \in Procs :
    p # q /\ op[p] = "Create" /\ pc[p] = "c_wait" /\ mu = p /\ pc[q] = "idle"


\* The deletions of Delete, in the order of the body, before the secrets.
DeleteOrder == <<"deleteEndpoint", "deleteService", "deleteStatefulSet">>

\* C6: Delete issues its deletions in the order endpoint, service, statefulset,
\* then each owned secret once; a deletion that failed is the last one Delete
\* attempted and makes it return an error; what was deleted before is gone,
\* and a deletion step changes no resource but its own, so what comes later
\* in the order is as it was.
C6_DeleteOrder ==
  /\ [](\A p \in Procs :
          op[p] = "Delete" /\ InBody(p) =>
            /\ \A i \in DOMAIN calls :
                 calls[i].call = IF i <= Len(DeleteOrder) THEN DeleteOrder[i] ELSE "deleteSecret"
            /\ \A i \in DOMAIN calls :
                 ~calls[i].ok => i = Len(calls) /\ ret = "err" /\ pc[p] = "unlock"
            /\ \A i, j \in At("deleteSecret") : calls[i].uid = calls[j].uid => i = j
            /\ Succeeded("deleteEndpoint") => Endpoint = NIL
            /\ Succeeded("deleteService") => Service = NIL
            /\ Succeeded("deleteStatefulSet") => Statefulset = NIL
            /\ \A i \in At("deleteSecret") : calls[i].ok => calls[i].uid \notin Secrets
            /\ ret = "err" => \E i \in DOMAIN calls : ~calls[i].ok
            /\ ret = "nil" => /\ \A k \in DOMAIN DeleteOrder : Succeeded(DeleteOrder[k])
                              /\ Secrets = {})
  /\ [][\A p \in Procs :
          op[p] = "Delete" /\ InBody(p) /\ Len(calls') = Len(calls) + 1 =>
            LET e == calls'[Len(calls')]
            IN  /\ ~e.ok => resources' = resources
                /\ e.call # "deleteEndpoint" => Endpoint' = Endpoint
                /\ e.call # "deleteService" => Service' = Service
                /\ e.call # "deleteStatefulSet" => Statefulset' = Statefulset
                /\ e.call # "deleteSecret" => Secrets' = Secrets
                /\ e.call = "deleteSecret" => Secrets' \in {Secrets, Secrets \ {e.uid}}]_vars

\* Delete has deleted the endpoint, the service and the statefulset, and
\* returns the error of the first secret deletion with a second secret left.
C6_Witness ==
  \E p \in Procs :
    /\ Returning(p, "Delete") /\ ret = "err"
    /\ Len(calls) = 4 /\ ~calls[4].ok
    /\ Endpoint = NIL /\ Service = NIL /\ Statefulset = NIL
    /\ Cardinality(Secrets) = 2

StatefulSetChanges == {"updateStatefulSet", "replaceStatefulSet"}

\* C7: in Update the pods are recreated only if the comparison reported
\* rollingUpdate and only after the statefulset update or replace succeeded;
\* once that change has succeeded with rollingUpdate reported, the pods are
\* recreated; and an Update that returns nil has recreated the pods exactly
\* when rollingUpdate was reported.
C7_RecreateAfterChange ==
  \A p \in Procs :
    op[p] = "Update" /\ InBody(p) =>
      /\ \A i \in At("recreatePods") :
           /\ cmp # NIL
           /\ cmp.rollingUpdate
           /\ \E j \in 1..(i - 1) : calls[j].call \in StatefulSetChanges /\ calls[j].ok
      /\ ( /\ pc[p] \in {"u_setRunning", "unlock"}
           /\ cmp # NIL
           /\ cmp.rollingUpdate
           /\ \E j \in DOMAIN calls : calls[j].call \in StatefulSetChanges /\ calls[j].ok )
           => At("recreatePods") # {}
      /\ pc[p] = "unlock" /\ ret = "nil"
           => /\ cmp # NIL
              /\ Succeeded("recreatePods") <=> cmp.rollingUpdate

\* Update returns nil after a replace of the statefulset followed by the
\* recreation of the pods.
C7_Witness ==
  \E p \in Procs :
    /\ Returning(p, "Update") /\ ret = "nil"
    /\ Succeeded("replaceStatefulSet") /\ Succeeded("recreatePods")
    /\ cmp.rollingUpdate /\ cmp.replace

\* C8: in Update, a comparison that does not match is followed by exactly one
\* statefulset remediation, replace if cmp.replace and in-place update
\* otherwise; a comparison that matches by none.  A service that differs from
\* the new one is remediated by updateService, never by delete and create.
C8_OneRemediation ==
  \A p \in Procs :
    op[p] = "Update" /\ InBody(p) =>
      /\ Cardinality(At("updateStatefulSet") \cup At("replaceStatefulSet")) <= 1
      /\ At("replaceStatefulSet") # {} => cmp # NIL /\ ~cmp.match /\ cmp.replace
      /\ At("updateStatefulSet") # {} => cmp # NIL /\ ~cmp.match /\ ~cmp.replace
      /\ ( /\ cmp # NIL
           /\ ~cmp.match
           /\ pc[p] \in {"u_recreatePods", "u_setRunning", "unlock"} )
           => Cardinality(At("updateStatefulSet") \cup At("replaceStatefulSet")) = 1
      /\ At("createService") = {} /\ At("deleteService") = {}
      /\ Cardinality(At("updateService")) <= 1
      /\ newService # NIL
           => sameServiceWith(Service, newService) \/ Failed("updateService")
      /\ Succeeded("updateService") => Service = newService

\* Update returns nil after an in-place service update and an in-place
\* statefulset update that needed neither replace nor recreation of the pods.
C8_Witness ==
  \E p \in Procs :
    /\ Returning(p, "Update") /\ ret = "nil"
    /\ Succeeded("updateService")
    /\ Succeeded("updateStatefulSet")
    /\ ~cmp.replace /\ ~cmp.rollingUpdate

\* --------------------------------------------------- claims on updateVolumes
\* updateVolumes is running, or has returned an error, in caller p's Update.
InUpdateVolumes(p) ==
  /\ op[p] = "Update"
  /\ pc[p] \in {"v_connect", "v_range", "v_resize", "v_resizeFS", "v_updatePV", "unlock"}
  /\ listed # <<>>

\* The calls made for the volume at 0-based position v, in order.
VolumeCalls(v) ==
  LET ForVolume(e) == "vol" \in DOMAIN e /\ e.vol = v
  IN  SelectSeq(calls, ForVolume)

ResizeProtocol == <<"ResizeVolume", "resizeVolumeFS", "PersistentVolumes.Update">>

\* C9: a volume whose size in whole GiB equals the wanted size in whole GiB
\* causes no call and keeps its record; for another volume the calls are, in
\* this order, the EBS resize, then (only after it succeeded) the filesystem
\* resize, then (only after it succeeded) the record update; the record changes
\* only through a successful record update, to the wanted quantity; a failed
\* filesystem resize, the one with empty output included, leaves the record.
C9_ResizeProtocol ==
  \A p \in Procs :
    InUpdateVolumes(p) =>
      \A v \in 0..(Len(listed) - 1) :
        LET cs == VolumeCalls(v)
        IN  /\ WholeGiB(listed[v + 1].Capacity) = newSize
                 => cs = <<>> /\ pvs[v + 1] = listed[v + 1]
                              /\ ebs[v + 1] = WholeGiB(listed[v + 1].Capacity)
            /\ Len(cs) <= Len(ResizeProtocol)
            /\ \A k \in DOMAIN cs :
                 /\ cs[k].call = ResizeProtocol[k]
                 /\ k < Len(cs) => cs[k].ok
            /\ Len(cs) >= 1 => cs[1].size = newSize
            /\ pvs[v + 1] # listed[v + 1] => Len(cs) = 3 /\ cs[3].ok
            /\ Len(cs) = 3 /\ cs[3].ok
                 => pvs[v + 1] = [listed[v + 1] EXCEPT !.Capacity = newQuantity]
            /\ Len(cs) >= 2 /\ ~cs[2].ok => pvs[v + 1] = listed[v + 1]
            /\ Len(cs) >= 2 /\ cs[2].out = <<>> => ~cs[2].ok /\ pvs[v + 1] = listed[v + 1]

\* Of two volumes the first, of the wanted number of whole GiB but another
\* quantity, was passed over and the second went through the three steps.
C9_Witness ==
  \E p \in Procs :
    /\ InUpdateVolumes(p) /\ pc[p] = "v_range" /\ vi = 2 /\ Len(listed) = 2
    /\ VolumeCalls(0) = <<>>
    /\ listed[1].Capacity # newQuantity /\ pvs[1] = listed[1]
    /\ Len(VolumeCalls(1)) = 3
    /\ pvs[2].Capacity = newQuantity /\ listed[2].Capacity # newQuantity

\* C10: a call that failed for a volume is the last call of updateVolumes,
\* which returns an error; no call is made for a later volume, whose record
\* and EBS size are as listed; and every earlier volume that needed the
\* resize has the new record and EBS size, also after the failure.
C10_AbortWithoutRollback ==
  \A p \in Procs :
    InUpdateVolumes(p) =>
      /\ \A i \in DOMAIN calls :
           ~calls[i].ok => i = Len(calls) /\ ret = "err" /\ pc[p] = "unlock"
      /\ ret = "err" => pc[p] = "unlock"
      /\ \A j \in DOMAIN listed :
           /\ j > vi + 1
                => /\ VolumeCalls(j - 1) = <<>>
                   /\ pvs[j] = listed[j]
                   /\ ebs[j] = WholeGiB(listed[j].Capacity)
           /\ j < vi + 1
                => IF WholeGiB(listed[j].Capacity) # newSize
                     THEN /\ pvs[j].Capacity = newQuantity
                          /\ ebs[j] = newSize
                          /\ Len(VolumeCalls(j - 1)) = 3
                     ELSE pvs[j] = listed[j]

\* updateVolumes returns the error of the second volume's EBS resize after it
\* resized the first volume, which keeps its new record and EBS size.
C10_Witness ==
  \E p \in Procs :
    /\ InUpdateVolumes(p) /\ pc[p] = "unlock" /\ ret = "err"
    /\ Len(listed) = 2 /\ vi = 1
    /\ Failed("ResizeVolume")
    /\ listed[1].Capacity # newQuantity /\ pvs[1].Capacity = newQuantity
    /\ ebs[1] = newSize /\ pvs[2] = listed[2]

\* ------------------------------------------------ claims on the pod events
\* The entries popped so far are the first Popped of enqueued.
Popped == Len(enqueued) - Len(podEventsQueue.queue)

\* The entries whose processing has ended, by a handoff or by a drop.
Processed == {delivered[i].n : i \in DOMAIN delivered} \cup dropped

\* One queue entry per key: the queue holds each key once, holds an item for
\* exactly the queued keys, each item under its own key, and every entry is
\* processed at most once, and once when the pipeline has drained.
OneEntryPerKey ==
  /\ \A i, j \in DOMAIN podEventsQueue.queue :
       podEventsQueue.queue[i] = podEventsQueue.queue[j] => i = j
  /\ DOMAIN podEventsQueue.items =
       {podEventsQueue.queue[i] : i \in DOMAIN podEventsQueue.queue}
  /\ \A k \in DOMAIN podEventsQueue.items : KeyFunc(podEventsQueue.items[k]) = k
  /\ \A i, j \in DOMAIN delivered : delivered[i].n = delivered[j].n => i = j
  /\ \A i \in DOMAIN delivered : delivered[i].n \notin dropped
  /\ Processed \subseteq 1..Popped
  /\ obj = NIL => Processed = 1..Popped

\* C11 as stated: submitting an event whose key is queued leaves one entry for
\* the key, processed once, and changes neither the queue nor the entry.
C11_ResubmissionIsNoOp ==
  /\ []OneEntryPerKey
  /\ [][ /\ Len(submitted') > Len(submitted)
         /\ KeyFunc(submitted'[Len(submitted')]) \in DOMAIN podEventsQueue.items
         => podEventsQueue' = podEventsQueue ]_vars

\* C11 amended: submitting an event whose key is queued leaves one entry for
\* the key, processed once, at its position in the queue; the entry's content
\* becomes the event submitted last, the other entries are unchanged.
C11_ResubmissionKeepsPosition ==
  /\ []OneEntryPerKey
  /\ [][ /\ Len(submitted') > Len(submitted)
         /\ KeyFunc(submitted'[Len(submitted')]) \in DOMAIN podEventsQueue.items
         => LET event == submitted'[Len(submitted')]
            IN  /\ podEventsQueue'.queue = podEventsQueue.queue
                /\ enqueued' = enqueued
                /\ podEventsQueue'.items =
                     [podEventsQueue.items EXCEPT ![KeyFunc(event)] = event] ]_vars

\* Two different events of one key were submitted into the same queue entry,
\* which was handed once to a subscriber, with the content of the second.
C11_Witness ==
  /\ Len(submitted) = 2
  /\ KeyFunc(submitted[1]) = KeyFunc(submitted[2])
  /\ submitted[1] # submitted[2]
  /\ Len(enqueued) = 1
  /\ podEventsQueue.queue = <<>>
  /\ Len(delivered) = 1
  /\ delivered[1].event = submitted[2]

\* C12: the handoffs to subscribers are made in the order in which the keys
\* were appended to the queue, each entry at most once, each to the channel
\* registered for the event's pod; an entry popped while its pod had no
\* subscriber is dropped, stays dropped and is never handed to a subscriber.
C12_DeliveryInQueueOrder ==
  /\ [](/\ \A i, j \in DOMAIN delivered : i < j => delivered[i].n < delivered[j].n
        /\ \A i \in DOMAIN delivered :
             /\ delivered[i].n \in 1..Popped
             /\ KeyFunc(delivered[i].event) = enqueued[delivered[i].n]
             /\ delivered[i].pod = delivered[i].event.PodName
             /\ delivered[i].n \notin dropped
        /\ dropped \subseteq 1..Popped)
  /\ [][ /\ dropped \subseteq dropped'
         /\ Len(delivered') >= Len(delivered)
         /\ \A i \in DOMAIN delivered : delivered'[i] = delivered[i]
         /\ dropped' # dropped
              => /\ dpc = "lookup"
                 /\ podSubscribers[obj.event.PodName] = 0
                 /\ delivered' = delivered ]_vars

\* Of three entries the first and the third were handed to subscribers and
\* the second was dropped.
C12_Witness ==
  /\ Len(delivered) = 2
  /\ delivered[1].n = 1
  /\ delivered[2].n = 3
  /\ dropped = {2}

\* The handoff in progress cannot complete: nobody receives from the channel.
Stalled == dpc = "send" /\ \A pod \in Pods : podSubscribers[pod] # subscriber

\* C13: once the stop channel is closed the goroutine of processPodEventQueue
\* returns, whatever the queue holds, unless it is in a handoff that never
\* completes; after it has returned nothing is handed to a subscriber.
C13_StopTerminates ==
  /\ stopCh ~> (dpc = "done" \/ Stalled)
  /\ [][dpc = "done" => dpc' = "done" /\ delivered' = delivered]_vars

\* C20: the goroutine of processPodEventQueue takes no step that needs
\* Cluster.mu: while a lifecycle call holds the mutex, a queued event of a pod
\* whose subscriber is registered is popped and handed to that subscriber,
\* unless the stop channel is closed, the subscriber is removed before the
\* event is popped (the event is dropped), or an earlier handoff never completes.
C20_DeliveryNeedsNoLifecycleLock ==
  \A n \in 1..(MaxSubmits + 1) :
    ( /\ mu # 0
      /\ n \in (Popped + 1)..Len(enqueued)
      /\ podSubscribers[podEventsQueue.items[enqueued[n]].PodName] # 0 )
      ~> ( \/ \E i \in DOMAIN delivered : delivered[i].n = n
           \/ n \in dropped
           \/ stopCh
           \/ Stalled )

\* While Create holds the mutex, waiting for the pods, an event was handed to
\* the subscriber of its pod.
C20_Witness ==
  /\ mu = 1 /\ pc[1] = "c_wait"
  /\ Len(delivered) = 1
  /\ ~stopCh

\* ------------------------------------- claims on compareStatefulSetWith
\* The comparison of caller p has returned a result.
Compared(p) == pc[p] = "u_compared" /\ ~cmp.panic

\* C14: when the live statefulset has no container the comparison returns
\* match = false, replace = false, rollingUpdate = false and no reason,
\* whatever else differs between the live and the new statefulset.
C14_ZeroContainersEmptyResult ==
  \A p \in Procs :
    pc[p] = "u_compared" /\ Len(Statefulset.Containers) = 0 =>
      /\ ~cmp.panic
      /\ ~cmp.match
      /\ ~cmp.replace
      /\ ~cmp.rollingUpdate
      /\ cmp.reasons = <<>>

\* A live statefulset without containers was compared with a new one that has
\* a container and another replica count.
C14_Witness ==
  \E p \in Procs :
    /\ pc[p] = "u_compared"
    /\ Len(Statefulset.Containers) = 0
    /\ Len(newStatefulSet.Containers) = 1
    /\ Statefulset.Replicas # newStatefulSet.Replicas

\* One mismatch check of the scan: whether it fires on the pair, the flags it
\* sets and the reason it appends.
Check(fires, roll, replace, msg, arg) ==
  [fires |-> fires, roll |-> roll, replace |-> replace, reason |-> Reason(msg, arg)]

\* The checks made before the test for a live statefulset without containers.
FirstChecks(cur, ss) ==
  << Check(cur.Replicas # ss.Replicas, FALSE, FALSE,
           "new statefulset's number of replicas doesn't match the current one", ""),
     Check(Len(cur.Containers) # Len(ss.Containers), TRUE, FALSE,
           "new statefulset's container specification doesn't match the current one", "") >>

\* The checks on the pod template and on the number of volume claim templates.
TemplateChecks(cur, ss) ==
  << Check(cur.ServiceAccountName # ss.ServiceAccountName, TRUE, TRUE,
           "new statefulset's serviceAccountName service asccount name doesn't match the current one", ""),
     Check(cur.TerminationGracePeriodSeconds # ss.TerminationGracePeriodSeconds, TRUE, TRUE,
           "new statefulset's terminationGracePeriodSeconds  doesn't match the current one", ""),
     Check(cur.Labels # ss.Labels, TRUE, TRUE,
           "new statefulset's metadata labels doesn't match the current one", ""),
     Check(cur.Annotations # ss.Annotations, TRUE, TRUE,
           "new statefulset's metadata annotations doesn't match the current one", ""),
     Check(Len(cur.VolumeClaimTemplates) # Len(ss.VolumeClaimTemplates), FALSE, TRUE,
           "new statefulset's volumeClaimTemplates contains different number of volumes to the old one", "") >>

\* The three checks on each volume claim template of the live statefulset: its
\* name and, for an equal name, its annotations and its spec.
ClaimChecks(cur, ss) ==
  [ j \in 1..(3 * Len(cur.VolumeClaimTemplates)) |->
      LET i == (j - 1) \div 3
          l == cur.VolumeClaimTemplates[i + 1]
          d == ss.VolumeClaimTemplates[i + 1]
      IN  CASE (j - 1) % 3 = 0 ->
                 Check(l.Name # d.Name, FALSE, TRUE,
                       "new statefulset's name for volume %d doesn't match the current one", Itoa(i))
            [] (j - 1) % 3 = 1 ->
                 Check(l.Name = d.Name /\ l.Annotations # d.Annotations, FALSE, TRUE,
                       "new statefulset's annotations for volume %s doesn't match the current one", l.Name)
            [] OTHER ->
                 Check(l.Name = d.Name /\ l.Spec # d.Spec, FALSE, TRUE,
                       "new statefulset's volumeClaimTemplates specification for volume %s doesn't match the current one", l.Name) ]

\* The checks on the first container.
ContainerChecks(cur, ss) ==
  LET container1 == cur.Containers[1]
      container2 == ss.Containers[1]
  IN  << Check(container1.Image # container2.Image, TRUE, FALSE,
               "new statefulset's container image doesn't match the current one", ""),
         Check(container1.Ports # container2.Ports, TRUE, FALSE,
               "new statefulset's container ports don't match the current one", ""),
         Check(~compareResources(container1.Resources, container2.Resources), TRUE, FALSE,
               "new statefulset's container resources don't match the current ones", ""),
         Check(container1.Env # container2.Env, TRUE, FALSE,
               "new statefulset's container environment doesn't match the current one", "") >>

\* The checks that fire on the pair during one pass, in scan order.
FiredChecks(cur, ss) ==
  LET Fires(c) == c.fires
  IN  IF Len(cur.Containers) = 0
        THEN SelectSeq(FirstChecks(cur, ss), Fires)
        ELSE SelectSeq(FirstChecks(cur, ss) \o TemplateChecks(cur, ss)
                         \o ClaimChecks(cur, ss) \o ContainerChecks(cur, ss), Fires)

\* The result reflects every check that fired on the pair.
ReflectsFiredChecks(cur, ss, result) ==
  LET f == FiredChecks(cur, ss)
  IN  /\ result.reasons = [i \in DOMAIN f |-> f[i].reason]
      /\ \A i \in DOMAIN f : /\ f[i].roll => result.rollingUpdate
                             /\ f[i].replace => result.replace
      /\ Len(cur.Containers) # Len(ss.Containers) => result.rollingUpdate

\* C15 as stated: the returned result has the flags of every check that fired
\* and their reasons in scan order; in particular rollingUpdate is true when
\* the container counts differ.
C15_ResultReflectsFiredChecks ==
  \A p \in Procs :
    Compared(p) => ReflectsFiredChecks(Statefulset, newStatefulSet, cmp)

\* C15 amended: when the live statefulset has at least one container, the
\* returned result has the flags of every check that fired and their reasons
\* in scan order; in particular rollingUpdate is true when the container
\* counts differ.
C15_ResultReflectsFiredChecksOfContainers ==
  \A p \in Procs :
    Compared(p) /\ Len(Statefulset.Containers) >= 1 =>
      ReflectsFiredChecks(Statefulset, newStatefulSet, cmp)

\* A check that sets both flags fired and after it one that sets
\* rollingUpdate only.
C15_Witness ==
  \E p \in Procs :
    /\ Compared(p)
    /\ Len(Statefulset.Containers) >= 1
    /\ Len(cmp.reasons) = 2
    /\ Statefulset.Annotations # newStatefulSet.Annotations
    /\ Statefulset.Containers[1].Image # newStatefulSet.Containers[1].Image

\* C16 as stated: match = not (rollingUpdate or replace) in every result.
C16_MatchIsNoEscalation ==
  \A p \in Procs :
    Compared(p) => (cmp.match <=> ~(cmp.rollingUpdate \/ cmp.replace))

\* C16 amended: match is false whenever rollingUpdate or replace is true; when
\* the live statefulset has a container, match = not (rollingUpdate or
\* replace or the replica counts differ); when it has none, match is false.
C16_MatchIsNoMismatch ==
  \A p \in Procs :
    Compared(p) =>
      /\ cmp.rollingUpdate \/ cmp.replace => ~cmp.match
      /\ Len(Statefulset.Containers) >= 1 =>
           ( cmp.match <=> ~( \/ cmp.rollingUpdate
                              \/ cmp.replace
                              \/ Statefulset.Replicas # newStatefulSet.Replicas ) )
      /\ Len(Statefulset.Containers) = 0 => ~cmp.match

\* Two statefulsets that differ in the replica count only: no match, no flag.
C16_Witness ==
  \E p \in Procs :
    /\ Compared(p)
    /\ Len(Statefulset.Containers) = 1
    /\ Statefulset.Replicas # newStatefulSet.Replicas
    /\ ~cmp.match /\ ~cmp.rollingUpdate /\ ~cmp.replace

\* The compared fields in which the pair differs, the replica count and the
\* numbers of containers and of volume claim templates being equal.
DifferingFields(cur, ss) ==
  { [kind |-> "container", field |-> f] : f \in
      { g \in {"Image", "Ports", "Resources", "Env"} :
          cur.Containers[1][g] # ss.Containers[1][g] } }
  \cup
  { [kind |-> "template", field |-> f] : f \in
      { g \in {"ServiceAccountName", "TerminationGracePeriodSeconds", "Labels", "Annotations"} :
          cur[g] # ss[g] } }
  \cup
  { [kind |-> "claim", field |-> f] : f \in
      { g \in {"Name", "Annotations", "Spec"} :
          \E i \in DOMAIN cur.VolumeClaimTemplates :
            cur.VolumeClaimTemplates[i][g] # ss.VolumeClaimTemplates[i][g] } }

\* C17: two statefulsets with a container each that differ in exactly one
\* compared field: a field of the first container gives rollingUpdate without
\* replace; service account, termination grace period, template labels or
\* template annotations give both; name, annotations or spec of a volume claim
\* template give replace without rollingUpdate.
C17_SingleFieldClassification ==
  \A p \in Procs :
    ( /\ Compared(p)
      /\ Len(Statefulset.Containers) >= 1
      /\ Len(Statefulset.Containers) = Len(newStatefulSet.Containers)
      /\ Len(Statefulset.VolumeClaimTemplates) = Len(newStatefulSet.VolumeClaimTemplates)
      /\ Statefulset.Replicas = newStatefulSet.Replicas
      /\ Cardinality(DifferingFields(Statefulset, newStatefulSet)) = 1 )
    => LET d == CHOOSE x \in DifferingFields(Statefulset, newStatefulSet) : TRUE
       IN  /\ d.kind = "container" => cmp.rollingUpdate /\ ~cmp.replace
           /\ d.kind = "template" => cmp.rollingUpdate /\ cmp.replace
           /\ d.kind = "claim" => cmp.replace /\ ~cmp.rollingUpdate

\* ------------------------------------------- claims on compareResources
\* The quantity a resource list gives a name; a name it lacks has quantity 0.
QuantityOf(list, name) == IF name \in DOMAIN list THEN list[name] ELSE 0

\* The two lists give the same quantity to every name either of them has.
SameQuantities(x, y) ==
  \A name \in DOMAIN x \cup DOMAIN y : QuantityOf(x, name) = QuantityOf(y, name)

\* C18: compareResources reports two requirement sets equal exactly when the
\* quantities are equal for every name in either side's requests and in
\* either side's limits; with one side nil, exactly when the other side has
\* no requests.  In particular sets whose limits differ are not reported equal.
C18_EqualIffSameRequestsAndLimits ==
  equal # NIL =>
    ( equal.equal <=>
        CASE ra = NIL /\ rb = NIL -> TRUE
          [] ra = NIL /\ rb # NIL -> DOMAIN rb.Requests = {}
          [] ra # NIL /\ rb = NIL -> DOMAIN ra.Requests = {}
          [] OTHER -> /\ SameQuantities(ra.Requests, rb.Requests)
                      /\ SameQuantities(ra.Limits, rb.Limits) )


\* The usernames that are both an infrastructure role and a user of the
\* cluster spec, and no team member.
SharedUsernames == (DOMAIN InfrastructureRoles \cap DOMAIN SpecUsers) \ teamMembers

\* C19 as stated: when initUsers has returned nil, the entry of pgUsers under
\* a username that is both an infrastructure role and a robot role is the
\* infrastructure role: its data with the flags normalized.
C19_InfrastructureRoleWins ==
  upc = "done" =>
    \A u \in SharedUsernames :
      /\ u \in DOMAIN pgUsers
      /\ pgUsers[u] = InfrastructureUser(InfrastructureRoles[u],
                                         normalizeUserFlags(InfrastructureRoles[u].Flags).flags)

\* C19 amended: when initUsers has returned nil, pgUsers has one entry under a
\* username that is both an infrastructure role and a robot role, and it is
\* the robot role: the username, a generated password, the normalized flags
\* of the cluster spec.
C19_RobotRoleWins ==
  upc = "done" =>
    \A u \in SharedUsernames :
      /\ u \in DOMAIN pgUsers
      /\ pgUsers[u] = RobotUser(u, normalizeUserFlags(SpecUsers[u]).flags)

\* initUsers has returned nil for a cluster with a username that is both an
\* infrastructure role and a robot role, the two differing in their flags.
C19_Witness ==
  /\ upc = "done"
  /\ \E u \in SharedUsernames :
       /\ InfrastructureRoles[u].Flags # SpecUsers[u]
       /\ pgUsers[u].Password = RandomPassword


\* C21: the comparison returns a result for every pair of a live and a new
\* statefulset, whatever their numbers of containers and of volume claim
\* templates: it reads no container and no volume claim template of the new
\* statefulset at an index the new statefulset does not have.
C21_ComparisonNeverIndexesOutOfRange ==
  \A p \in Procs : pc[p] = "u_compared" => ~cmp.panic


\* C22: when the wanted volume size cannot be parsed as a quantity,
\* updateVolumes makes no EBS resize, no filesystem resize and no record
\* update call for any volume, and it does not return nil.
C22_UnparsableSizeIsAnError ==
  /\ [](parseErr => \A i \in DOMAIN calls :
                      calls[i].call \notin {"ResizeVolume", "resizeVolumeFS",
                                            "PersistentVolumes.Update"})
  /\ [][parseErr => \A p \in Procs : pc'[p] = "u_genStatefulSet" => pc[p] = "u_genStatefulSet"]_vars

=============================================================================
